---- MODULE Spec2Model ----
(***************************************************************************)
(* Model of the blog generator CLI (python/crewai/blog_generator.py): one  *)
(* process run of main(), the four stage functions it drives, the two-phase *)
(* structural label check of the editor stage, and the heuristic scorer     *)
(* check_ai_detection that gates the Writer <-> Editor revision loop.       *)
(*                                                                         *)
(* Texts are not modelled character by character.  A text is a record of    *)
(* the quantities the code reads off it: its length, its lines (for the     *)
(* label patterns), its qualifying sentences (length and 10-character       *)
(* prefix) and the substring counts of the scorer's word lists.             *)
(***************************************************************************)
EXTENDS Integers, Sequences, FiniteSets, TLC

(***************************************************************************)
(* Bounds of the model.                                                     *)
(***************************************************************************)
\* longest hashtag list the backend returns to the Edit call
MaxModelTags == 31
\* most whitespace characters at the ends of a text that is scored
MaxPad == 40
\* longest value of a prompt line, in characters
MaxValueLen == 3
\* longest hashtag list that is drawn from the short tag alphabet
MaxShortTags == 4
\* most whitespace-separated words of a content whose SEO score is taken
MaxWords == 350

(***************************************************************************)
(* Program constants.                                                       *)
(***************************************************************************)
MAX_ITERATIONS == 3
AI_DETECTION_THRESHOLD == 50
\* check_ai_detection: minimum content length and minimum sentence count
MinContentLen == 100
MinSentences == 5
\* check_ai_detection: a piece between terminators counts as a sentence when
\* it is longer than this, `len(s.strip()) > 10`
SentenceMinLen == 10
\* editor_stage: number of hashtags asked for, `while len(hashtags) < 30`
HashtagTarget == 30

(***************************************************************************)
(* Small helpers.                                                           *)
(***************************************************************************)
Min(a, b) == IF a < b THEN a ELSE b

Range(s) == { s[i] : i \in 1..Len(s) }

RECURSIVE SumSeq(_)
SumSeq(s) == IF s = <<>> THEN 0 ELSE Head(s) + SumSeq(Tail(s))

\* s[:n] of Python
Prefix(s, n) == SubSeq(s, 1, Min(n, Len(s)))

(***************************************************************************)
(* Texts.  Line kinds stand for these lines (after strip()):                *)
(*   "h2_intro"      "## 서론"            "h2_body1"   "## 본문 1"          *)
(*   "num_intro"     "1. 서론"            "ordinal"    "첫 번째: ..."       *)
(*   "h2_num_intro"  "## 1. 서론"         "bare_intro" "서론:"              *)
(*   "h2_intro_tail" "## 서론입니다"      "h2_topic"   "## <topic title>"   *)
(*   "plain"         a sentence           "blank"      ""                   *)
(***************************************************************************)
Sent(l, st) == [len |-> l, start |-> st]

Text ==
  [ tEmpty   |-> [len |-> 0, lines |-> <<"blank">>, sents |-> <<>>,
                  phrases |-> 0, thus |-> 0, transOther |-> 0,
                  passive |-> 0, generic |-> 0],
    \* a draft with mechanical section labels, written in a uniform style
    tLabelAI |-> [len |-> 240,
                  lines |-> <<"h2_intro", "plain", "h2_body1", "plain",
                              "h2_topic", "ordinal", "bare_intro">>,
                  sents |-> <<Sent(36, 1), Sent(36, 1), Sent(37, 1),
                              Sent(36, 2), Sent(36, 2), Sent(37, 1)>>,
                  phrases |-> 6, thus |-> 4, transOther |-> 8,
                  passive |-> 9, generic |-> 4],
    \* a rewrite of exactly half the length of tLabelAI
    tHalf    |-> [len |-> 120, lines |-> <<"h2_topic", "plain">>,
                  sents |-> <<Sent(12, 1), Sent(30, 2), Sent(18, 3),
                              Sent(25, 4), Sent(14, 5)>>,
                  phrases |-> 1, thus |-> 0, transOther |-> 1,
                  passive |-> 1, generic |-> 0],
    \* a rewrite without labels, varied sentences
    tClean   |-> [len |-> 200, lines |-> <<"h2_topic", "plain", "h2_intro_tail">>,
                  sents |-> <<Sent(12, 1), Sent(48, 2), Sent(20, 3),
                              Sent(61, 4), Sent(15, 5), Sent(33, 6)>>,
                  phrases |-> 2, thus |-> 1, transOther |-> 1,
                  passive |-> 2, generic |-> 1],
    \* an edited text that still reads as generated
    tAI      |-> [len |-> 300, lines |-> <<"h2_topic", "plain", "plain">>,
                  sents |-> <<Sent(40, 1), Sent(41, 1), Sent(40, 1),
                              Sent(40, 1), Sent(41, 2), Sent(40, 2),
                              Sent(40, 1)>>,
                  phrases |-> 9, thus |-> 5, transOther |-> 9,
                  passive |-> 14, generic |-> 7],
    \* an edited text that reads as written by a person
    tHuman   |-> [len |-> 320, lines |-> <<"h2_intro_tail", "plain", "bare_intro">>,
                  sents |-> <<Sent(14, 1), Sent(55, 2), Sent(23, 3),
                              Sent(70, 4), Sent(11, 5), Sent(38, 6),
                              Sent(90, 7)>>,
                  phrases |-> 1, thus |-> 0, transOther |-> 1,
                  passive |-> 1, generic |-> 0],
    \* five equal short sentences followed by 40 blanks, and the same text
    \* after strip()
    tPadded  |-> [len |-> 100, lines |-> <<"plain">>,
                  sents |-> <<Sent(11, 1), Sent(11, 1), Sent(11, 1),
                              Sent(11, 1), Sent(11, 1)>>,
                  phrases |-> 0, thus |-> 0, transOther |-> 0,
                  passive |-> 0, generic |-> 0],
    tStripped |-> [len |-> 60, lines |-> <<"plain">>,
                  sents |-> <<Sent(11, 1), Sent(11, 1), Sent(11, 1),
                              Sent(11, 1), Sent(11, 1)>>,
                  phrases |-> 0, thus |-> 0, transOther |-> 0,
                  passive |-> 0, generic |-> 0] ]

TextIds == DOMAIN Text

(***************************************************************************)
(* check_ai_detection                                                       *)
(***************************************************************************)
ZeroReport == [score |-> 0, issues |-> <<>>, passed |-> TRUE]

\* variant: every occurrence of "따라서" is counted
PhraseCount_Occurrences(t) == t.phrases + t.thus

\* phrase_count: the listed stock phrases that occur; "따라서" is one of them
PhraseCount(t) == t.phrases + (IF t.thus > 0 THEN 1 ELSE 0)

\* transition_count: occurrences of the connectives; "따라서" is one of them
TransitionCount(t) == t.thus + t.transOther

UniqueStarts(t) == Cardinality({ t.sents[i].start : i \in 1..Len(t.sents) })

\* int((1 - unique/n) * 100).  In binary floating point the product falls
\* just below the exact quotient for unique/n = 4/5 and 9/10 (19 and 9
\* instead of 20 and 10); for every other ratio of up to 12 sentences the
\* truncation equals the exact quotient.
StartScore(n, u) ==
  LET exact == (100 * (n - u)) \div n
  IN  IF 5 * u = 4 * n \/ 10 * u = 9 * n THEN exact - 1 ELSE exact

\* int((1 - min(cv, 1)) * 60) with cv = stdev / mean = sqrt(n*Q - S*S) / S
UniformityScore(n, S, Q) ==
  LET D == n * Q - S * S
  IN  IF D >= S * S THEN 0
      ELSE CHOOSE k \in 0..60 :
             /\ 3600 * D <= (60 - k) * (60 - k) * S * S
             /\ \A j \in (k + 1)..60 : 3600 * D > (60 - j) * (60 - j) * S * S

SubScores(t) ==
  LET n    == Len(t.sents)
      lens == [i \in 1..n |-> t.sents[i].len]
      S    == SumSeq(lens)
      Q    == SumSeq([i \in 1..n |-> lens[i] * lens[i]])
  IN  [ phrase     |-> Min(100, PhraseCount(t) * 8),
        start      |-> StartScore(n, UniqueStarts(t)),
        passive    |-> Min(100, (t.passive * 50) \div n),
        uniformity |-> UniformityScore(n, S, Q),
        transition |-> Min(100, (TransitionCount(t) * 40) \div n),
        generic    |-> Min(100, t.generic * 15) ]

Issues(t) ==
  LET n    == Len(t.sents)
      lens == [i \in 1..n |-> t.sents[i].len]
      S    == SumSeq(lens)
      Q    == SumSeq([i \in 1..n |-> lens[i] * lens[i]])
      sc   == SubScores(t)
  IN  (IF sc.phrase > 40 THEN <<"phrase">> ELSE <<>>)
      \o (IF 10 * UniqueStarts(t) < 6 * n THEN <<"start">> ELSE <<>>)
      \o (IF 2 * t.passive > n THEN <<"passive">> ELSE <<>>)
      \o (IF 100 * (n * Q - S * S) < 9 * S * S THEN <<"uniformity">> ELSE <<>>)
      \o (IF 10 * TransitionCount(t) > 7 * n THEN <<"transition">> ELSE <<>>)
      \o (IF t.generic > 3 THEN <<"generic">> ELSE <<>>)

\* sentences = [s.strip() for s in sentences if len(s.strip()) > 10]
Qualifying(sents) == SelectSeq(sents, LAMBDA s : s.len > SentenceMinLen)

\* variant: a threshold of 30
Passed_Below30(final_score) == final_score < 30

\* variant: `final_score <= 50`
Passed_AtMost(final_score) == final_score <= AI_DETECTION_THRESHOLD

\* "passed": final_score < 50
Passed(final_score) == final_score < AI_DETECTION_THRESHOLD

\* the report for a text given by its features: t.len is len(content),
\* t.sents the stripped pieces between sentence terminators
AiReport(t) ==
  IF t.len = 0 \/ t.len < MinContentLen THEN ZeroReport
  ELSE IF Len(Qualifying(t.sents)) < MinSentences THEN ZeroReport
  ELSE LET q     == [t EXCEPT !.sents = Qualifying(t.sents)]
           sc    == SubScores(q)
           total == sc.phrase + sc.start + sc.passive + sc.uniformity
                    + sc.transition + sc.generic
           final == total \div 6
       IN  [score |-> final, issues |-> Issues(q), passed |-> Passed(final)]

check_ai_detection(content) == AiReport(Text[content])

(***************************************************************************)
(* The CLI input (sys.argv[1]) and the installation the process runs in.   *)
(***************************************************************************)
KeyNames == {"openai", "google", "perplexity"}

Stages == {"opener", "researcher", "writer", "editor"}

\* aiAgents as given on the command line; a stage it does not name is
\* looked up with ai_agents.get(stage, 'openai')
AgentConfig ==
  [ absent       |-> <<>>,
    editorGemini |-> [opener |-> "claude", editor |-> "gemini"] ]

DefaultAgents ==
  [opener |-> "openai", researcher |-> "perplexity",
   writer |-> "gemini", editor |-> "openai"]

ApiKeyChoices ==
  { {}, {"openai"}, {"openai", "google"}, {"openai", "perplexity"}, KeyNames }

\* python packages that can be imported: openai, google.generativeai
PackageChoices == { {"openai", "genai"}, {"openai"} }

ObjectInputs ==
  [ argv : {"object"},
    prompt : {"absent", "empty", "text"},
    hasApiKeys : BOOLEAN,
    apiKeys : ApiKeyChoices,
    aiAgents : DOMAIN AgentConfig,
    layout : {"absent", "malformed"},
    testMode : BOOLEAN ]

NoObject(kind) ==
  [argv |-> kind, prompt |-> "absent", hasApiKeys |-> FALSE, apiKeys |-> {},
   aiAgents |-> "absent", layout |-> "absent", testMode |-> FALSE]

Inputs ==
  { i \in ObjectInputs : ~i.hasApiKeys => i.apiKeys = {} }
  \cup { NoObject(k) : k \in {"none", "badjson", "nonobject"} }

(***************************************************************************)
(* State.                                                                   *)
(***************************************************************************)
VARIABLES
  input,               \* sys.argv[1], decoded
  installed,           \* importable client packages
  pc,                  \* where the run is
  clients,             \* the global clients that are set: openai_client, google_genai
  ai_agents,           \* generate_blog_post's ai_agents after defaulting
  calls,               \* the generation calls attempted so far, in order
  opener_result,
  researcher_result,
  iteration,
  revision_feedback,
  writer_result,
  content,             \* editor_stage's content, before and after the label cleanup
  detected_labels,     \* editor_stage's detected_labels (line numbers)
  cleaned_content,     \* editor_stage's cleaned_content, "none" while unset
  label_quality_note,
  editor_result,
  final_content,
  ai_check,
  stages_result,
  quality_warning,
  output,              \* the JSON object printed on stdout
  exit_code,           \* -1 while running
  printed,             \* how many JSON objects were printed on stdout
  fn_arg,              \* a function applied on its own: its argument
  fn_ret               \* ... and what it returned

vars ==
  <<input, installed, pc, clients, ai_agents, calls, opener_result,
    researcher_result, iteration, revision_feedback, writer_result, content,
    detected_labels, cleaned_content, label_quality_note, editor_result, final_content,
    ai_check, stages_result, quality_warning, output, exit_code, printed,
    fn_arg, fn_ret>>

NoReport == [score |-> -1, issues |-> <<>>, passed |-> FALSE]

NoFeedback == [issues |-> <<>>, score |-> -1]

NoOpener ==
  [status |-> "none", target_audience |-> "empty",
   research_instructions |-> "empty", faq_candidates |-> "empty",
   additional_keywords |-> "empty", topic_analysis |-> "empty"]

NoEditor ==
  [status |-> "none", improved_content |-> "tEmpty", seo_title |-> "text",
   hashtags |-> <<>>, quality_issues |-> <<>>]

NoOutput ==
  [kind |-> "none", error |-> "", content |-> "tEmpty", hashtags |-> <<>>,
   qualityWarning |-> FALSE, iterationsUsed |-> 0, aiDetectionScore |-> -1,
   aiDetectionIssues |-> <<>>, aiDetectionPassed |-> TRUE, stages |-> <<>>,
   success |-> FALSE]

Init ==
  /\ input \in Inputs
  /\ installed \in PackageChoices
  /\ pc = "main"
  /\ clients = {}
  /\ ai_agents = <<>>
  /\ calls = <<>>
  /\ opener_result = NoOpener
  /\ researcher_result = "none"
  /\ iteration = 0
  /\ revision_feedback = NoFeedback
  /\ writer_result = "none"
  /\ content = "none"
  /\ detected_labels = <<>>
  /\ cleaned_content = "none"
  /\ label_quality_note = ""
  /\ editor_result = NoEditor
  /\ final_content = "tEmpty"
  /\ ai_check = NoReport
  /\ stages_result = <<>>
  /\ quality_warning = FALSE
  /\ output = NoOutput
  /\ exit_code = -1
  /\ printed = 0
  /\ fn_arg = <<>>
  /\ fn_ret = <<>>

(***************************************************************************)
(* init_clients, call_ai and the provider clients.                          *)
(***************************************************************************)
\* init_clients: a client is set when its key is given and its package imports
init_clients(api_keys) ==
  (IF "openai" \in api_keys /\ "openai" \in installed THEN {"openai"} ELSE {})
  \cup (IF "google" \in api_keys /\ "genai" \in installed THEN {"google"} ELSE {})

\* ai_agents.get(stage, 'openai')
Provider(agents, stage) ==
  IF stage \in DOMAIN agents THEN agents[stage] ELSE "openai"

\* variant: call_gemini and call_perplexity without their guards
ClientReady_OpenAIOnly(provider) ==
  provider \in {"gemini", "perplexity"} \/ "openai" \in clients

\* call_ai reaches the backend only past the guard of the function it
\* dispatches to: call_openai, call_gemini or call_perplexity
ClientReady(provider) ==
  CASE provider = "gemini" -> "google" \in clients
    [] provider = "perplexity" ->
         "perplexity" \in input.apiKeys /\ "openai" \in installed
    [] OTHER -> "openai" \in clients

NoContext ==
  [research_data |-> "none", target_audience |-> "none",
   additional_keywords |-> "none", faq_candidates |-> "none"]

\* what generate_blog_post hands to writer_stage and editor_stage from the
\* Ideation and Research outputs
StageContext ==
  [research_data |-> researcher_result,
   target_audience |-> opener_result.target_audience,
   additional_keywords |-> opener_result.additional_keywords,
   faq_candidates |-> opener_result.faq_candidates]

\* a generation call: the stage and iteration it belongs to, whether the
\* request was sent and answered, for Draft and Edit the context passed, and
\* for Draft the revision_feedback its prompt is built from
Call(stage, it, sent, ok) ==
  [stage |-> stage, iteration |-> it, sent |-> sent, ok |-> ok,
   ctx |-> IF stage \in {"writer", "editor"} THEN StageContext
           ELSE NoContext,
   feedback |-> IF stage = "writer" THEN revision_feedback ELSE NoFeedback]

\* variant: the trace is rebuilt at every write
Put_Replace(d, k, v) == [x \in {k} |-> v]

\* dict[key] = value
Put(d, k, v) == [x \in (DOMAIN d) \cup {k} |-> IF x = k THEN v ELSE d[x]]

\* main's handlers: print(json.dumps({"error": ...})); sys.exit(1)
ErrorOutput(msg) == [NoOutput EXCEPT !.kind = "error", !.error = msg]

(***************************************************************************)
(* What the backend can answer.                                             *)
(***************************************************************************)
\* Ideation: no braces, braces around undecodable text, the object asked
\* for, an object without the optional fields, an object whose
\* target_audience is a string instead of an object
OpenerResponses == {"nobrace", "undecodable", "full", "partial", "badshape"}

ResearchResponses == {"tClean"}

WriterResponses == {"tLabelAI", "tHuman", "tEmpty"}

CleanupResponses == {"tHalf", "tClean", "tEmpty"}

\* hashtags: tags 1..18 are the entries of generic_tags in their order,
\* tags above 100 are tags only the backend comes up with
ModelTags(n) == [i \in 1..n |-> 100 + i]

generic_tags == [i \in 1..18 |-> i]

HashtagChoices ==
  { [kind |-> "absent", list |-> <<>>],
    [kind |-> "null", list |-> <<>>],
    [kind |-> "list", list |-> <<101, 3, 102, 101>>],
    [kind |-> "list", list |-> ModelTags(HashtagTarget - 18)],
    [kind |-> "list", list |-> ModelTags(HashtagTarget)],
    [kind |-> "list", list |-> ModelTags(MaxModelTags)] }

ImprovedChoices == {"absent", "tEmpty", "tHuman", "tAI"}

\* seo_title: "absent" (no such key), "text" or "null" (JSON null)
EditObject(imp, tags) ==
  [kind |-> "object", improved_content |-> imp, seo_title |-> "text",
   hashtags |-> tags]

EditObjectTitle(imp, title) ==
  [kind |-> "object", improved_content |-> imp, seo_title |-> title,
   hashtags |-> [kind |-> "absent", list |-> <<>>]]

NoTags == [kind |-> "absent", list |-> <<>>]

TitleChoices == {"absent", "null"}

\* every shape of the improved text with no hashtags, every shape of the
\* hashtag list with a text that passes the score check, every shape of
\* the title with a text that fails it, a text of 60 characters, and an
\* empty text with a null title
EditResponses ==
  { [kind |-> k, improved_content |-> "absent", seo_title |-> "absent",
     hashtags |-> NoTags] : k \in {"nobrace", "undecodable"} }
  \cup { EditObject(imp, NoTags) : imp \in ImprovedChoices }
  \cup { EditObject("tHuman", tags) : tags \in HashtagChoices }
  \cup { EditObjectTitle("tAI", title) : title \in TitleChoices }
  \cup { EditObject("tStripped", NoTags), EditObjectTitle("tEmpty", "null") }

(***************************************************************************)
(* main                                                                     *)
(***************************************************************************)
\* variant: only a result goes to stdout, an error object is not printed
Exit_ResultOnly(out, code) ==
  /\ output' = IF code = 0 THEN out ELSE output
  /\ printed' = IF code = 0 THEN printed + 1 ELSE printed
  /\ exit_code' = code
  /\ pc' = "exit"

\* print(json.dumps(out)), then the process ends with status `code`
Exit(out, code) ==
  /\ output' = out
  /\ printed' = printed + 1
  /\ exit_code' = code
  /\ pc' = "exit"

\* variant: the handler prints the error and forgets sys.exit(1)
Fatal_ExitZero == Exit(ErrorOutput("Generation failed"), 0)

\* an exception that reaches main's `except Exception`
Fatal == Exit(ErrorOutput("Generation failed"), 1)

\* variant: `prompt is None`
PromptMissing_NoneOnly == input.prompt = "absent"

\* `not prompt`
PromptMissing == input.prompt \in {"absent", "empty"}

\* variant: `api_keys is None`
ApiKeysMissing_NoneOnly == ~input.hasApiKeys

\* `not api_keys`
ApiKeysMissing == ~input.hasApiKeys \/ input.apiKeys = {}

Main ==
  /\ pc = "main"
  /\ UNCHANGED <<fn_arg, fn_ret, input, installed, calls, opener_result, researcher_result,
                 revision_feedback, writer_result, content, detected_labels, cleaned_content,
                 label_quality_note, editor_result, final_content, ai_check,
                 stages_result, quality_warning>>
  /\ IF input.argv = "none"
       THEN /\ Exit(ErrorOutput("No input provided."), 1)
            /\ UNCHANGED <<clients, ai_agents, iteration>>
     ELSE IF input.argv = "badjson"
       THEN /\ Exit(ErrorOutput("Invalid JSON input"), 1)
            /\ UNCHANGED <<clients, ai_agents, iteration>>
     ELSE IF input.argv = "nonobject" \/ input.layout = "malformed"
       \* input_data.get / layout_data.get raise AttributeError
       THEN /\ Fatal
            /\ UNCHANGED <<clients, ai_agents, iteration>>
     ELSE IF PromptMissing
       THEN /\ Exit(ErrorOutput("Prompt is required"), 1)
            /\ UNCHANGED <<clients, ai_agents, iteration>>
     ELSE IF ApiKeysMissing
       THEN /\ Exit(ErrorOutput("API keys are required. Please add your AI API keys in settings."), 1)
            /\ UNCHANGED <<clients, ai_agents, iteration>>
     ELSE \* generate_test_sample / generate_blog_post up to the first call
          /\ clients' = init_clients(input.apiKeys)
          /\ ai_agents' = IF input.aiAgents = "absent"
                            THEN (IF input.testMode THEN <<>> ELSE DefaultAgents)
                            ELSE AgentConfig[input.aiAgents]
          /\ iteration' = 0
          /\ pc' = IF input.testMode THEN "test" ELSE "opener"
          /\ UNCHANGED <<output, exit_code, printed>>

(***************************************************************************)
(* opener_stage, researcher_stage, writer_stage                             *)
(***************************************************************************)
\* variant: the loop body goes from writer_stage straight to the score check
AfterStage_SkipEdit(stage) ==
  CASE stage = "opener" -> "researcher"
    [] stage = "researcher" -> "writer"
    [] stage = "writer" -> "score"
    [] stage = "editor" -> "score"

\* the statement that follows a stage's return in generate_blog_post:
\* researcher_stage after opener_stage, the loop's writer_stage after
\* researcher_stage, editor_stage (which begins with its label check) after
\* writer_stage, check_ai_detection after editor_stage
AfterStage(stage) ==
  CASE stage = "opener" -> "researcher"
    [] stage = "researcher" -> "writer"
    [] stage = "writer" -> "sanitize"
    [] stage = "editor" -> "score"

\* variant: a failed request is logged and the stage is entered again
CallFails_Reissued(stage, it) ==
  /\ calls' = Append(calls, Call(stage, it, ClientReady(Provider(ai_agents, stage)), FALSE))
  /\ UNCHANGED <<pc, output, exit_code, printed>>

\* the call_ai of a stage fails: no client, or the request fails
CallFails(stage, it) ==
  /\ \/ /\ ~ClientReady(Provider(ai_agents, stage))
        /\ calls' = Append(calls, Call(stage, it, FALSE, FALSE))
     \/ /\ ClientReady(Provider(ai_agents, stage))
        /\ calls' = Append(calls, Call(stage, it, TRUE, FALSE))
  /\ Fatal

CallReturns(stage, it) ==
  /\ ClientReady(Provider(ai_agents, stage))
  /\ calls' = Append(calls, Call(stage, it, TRUE, TRUE))

\* json.loads of response[first '{' : last '}'], degraded when there is no
\* such slice or it does not decode; then the result.get(...) defaults
OpenerParse(r) ==
  CASE r \in {"nobrace", "undecodable"} ->
         [status |-> "completed", target_audience |-> "empty",
          research_instructions |-> "empty", faq_candidates |-> "empty",
          additional_keywords |-> "empty", topic_analysis |-> "raw"]
    [] r = "full" ->
         [status |-> "completed", target_audience |-> "object",
          research_instructions |-> "list", faq_candidates |-> "list",
          additional_keywords |-> "list", topic_analysis |-> "text"]
    [] r = "partial" ->
         [status |-> "completed", target_audience |-> "empty",
          research_instructions |-> "list", faq_candidates |-> "empty",
          additional_keywords |-> "empty", topic_analysis |-> "text"]
    [] r = "badshape" ->
         [status |-> "completed", target_audience |-> "string",
          research_instructions |-> "list", faq_candidates |-> "list",
          additional_keywords |-> "list", topic_analysis |-> "text"]

OpenerStage ==
  /\ pc = "opener"
  /\ UNCHANGED <<fn_arg, fn_ret, input, installed, clients, ai_agents, researcher_result,
                 iteration, revision_feedback, writer_result, content,
                 detected_labels, cleaned_content, label_quality_note, editor_result,
                 final_content, ai_check, quality_warning>>
  /\ \/ /\ CallFails("opener", 0)
        /\ UNCHANGED <<opener_result, stages_result>>
     \/ /\ CallReturns("opener", 0)
        /\ \E r \in OpenerResponses :
             /\ opener_result' = OpenerParse(r)
             /\ stages_result' = Put(stages_result, "opener", OpenerParse(r))
        /\ pc' = AfterStage("opener")
        /\ UNCHANGED <<output, exit_code, printed>>

ResearcherStage ==
  /\ pc = "researcher"
  /\ UNCHANGED <<fn_arg, fn_ret, input, installed, clients, ai_agents, opener_result,
                 revision_feedback, writer_result, content, detected_labels, cleaned_content,
                 label_quality_note, editor_result, final_content, ai_check,
                 quality_warning>>
  /\ \/ /\ CallFails("researcher", 0)
        /\ UNCHANGED <<researcher_result, stages_result, iteration>>
     \/ /\ CallReturns("researcher", 0)
        /\ \E r \in ResearchResponses :
             /\ researcher_result' = r
             /\ stages_result' =
                  Put(stages_result, "researcher",
                      [status |-> "completed", research_data |-> r,
                       faq_research |-> opener_result.faq_candidates])
        \* for iteration in range(1, MAX_ITERATIONS + 1)
        /\ iteration' = 1
        /\ pc' = AfterStage("researcher")
        /\ UNCHANGED <<output, exit_code, printed>>

\* variant: the keys carry no iteration number
StageKey_NoIteration(stage, it) ==
  CASE stage = "writer" -> "writer_v1"
    [] stage = "editor" -> "editor_v1"
    [] stage = "ai_check" -> "ai_check_v1"

\* f'writer_v{iteration}', f'editor_v{iteration}', f'ai_check_v{iteration}'
StageKey(stage, it) ==
  CASE stage = "writer" /\ it = 1 -> "writer_v1"
    [] stage = "writer" /\ it = 2 -> "writer_v2"
    [] stage = "writer" /\ it = 3 -> "writer_v3"
    [] stage = "editor" /\ it = 1 -> "editor_v1"
    [] stage = "editor" /\ it = 2 -> "editor_v2"
    [] stage = "editor" /\ it = 3 -> "editor_v3"
    [] stage = "ai_check" /\ it = 1 -> "ai_check_v1"
    [] stage = "ai_check" /\ it = 2 -> "ai_check_v2"
    [] stage = "ai_check" /\ it = 3 -> "ai_check_v3"

WriterStage ==
  /\ pc = "writer"
  /\ UNCHANGED <<fn_arg, fn_ret, input, installed, clients, ai_agents, opener_result,
                 researcher_result, iteration, revision_feedback, content,
                 detected_labels, cleaned_content, label_quality_note, editor_result,
                 final_content, ai_check, quality_warning>>
  /\ IF opener_result.target_audience = "string"
       \* target_audience.get(...) on a str: AttributeError before call_ai
       THEN /\ Fatal
            /\ UNCHANGED <<calls, writer_result, stages_result>>
       ELSE \/ /\ CallFails("writer", iteration)
               /\ UNCHANGED <<writer_result, stages_result>>
            \/ /\ CallReturns("writer", iteration)
               /\ \E r \in WriterResponses :
                    /\ writer_result' = r
                    /\ stages_result' =
                         Put(stages_result, StageKey("writer", iteration),
                             [status |-> "completed", content |-> r])
               /\ pc' = AfterStage("writer")
               /\ UNCHANGED <<output, exit_code, printed>>

(***************************************************************************)
(* editor_stage                                                             *)
(***************************************************************************)
\* variant: the first pattern without its `$` anchor
LabelPattern_Unanchored(line) ==
  CASE line \in {"h2_intro", "h2_intro_tail"} -> 1
    [] line = "h2_body1" -> 2
    [] line = "num_intro" -> 3
    [] line = "ordinal" -> 4
    [] line = "h2_num_intro" -> 5
    [] OTHER -> 0

\* the first of label_patterns that re.search finds in the stripped line,
\* 0 when none does
LabelPattern(line) ==
  CASE line = "h2_intro" -> 1
    [] line = "h2_body1" -> 2
    [] line = "num_intro" -> 3
    [] line = "ordinal" -> 4
    [] line = "h2_num_intro" -> 5
    [] OTHER -> 0

\* phase 1: the numbers of the lines a pattern matches, in order
DetectLabels(lines) ==
  SelectSeq([i \in 1..Len(lines) |-> i], LAMBDA i : LabelPattern(lines[i]) > 0)

\* variant: `>=` in the length check
CleanupAccepted_AtLeastHalf(cleaned, original) ==
  /\ Text[cleaned].len > 0
  /\ 2 * Text[cleaned].len >= Text[original].len

\* cleaned_content and len(cleaned_content) > len(content) * 0.5
CleanupAccepted(cleaned, original) ==
  /\ Text[cleaned].len > 0
  /\ 2 * Text[cleaned].len > Text[original].len

EditorSanitize ==
  /\ pc = "sanitize"
  /\ UNCHANGED <<fn_arg, fn_ret, input, installed, clients, ai_agents, opener_result,
                 researcher_result, iteration, revision_feedback,
                 writer_result, editor_result, final_content, ai_check,
                 stages_result, quality_warning, output, exit_code,
                 printed>>
  /\ detected_labels' = DetectLabels(Text[writer_result].lines)
  /\ pc' = "edit"
  /\ IF detected_labels' = <<>>
       THEN /\ content' = writer_result
            /\ label_quality_note' = ""
            /\ cleaned_content' = "none"
            /\ UNCHANGED calls
       ELSE \* phase 2, inside try / except Exception
            \/ /\ ~ClientReady(Provider(ai_agents, "editor"))
               /\ calls' = Append(calls, Call("cleanup", iteration, FALSE, FALSE))
               /\ cleaned_content' = "none"
               /\ content' = writer_result
               /\ label_quality_note' = "remove_failed"
            \/ /\ ClientReady(Provider(ai_agents, "editor"))
               /\ calls' = Append(calls, Call("cleanup", iteration, TRUE, FALSE))
               /\ cleaned_content' = "none"
               /\ content' = writer_result
               /\ label_quality_note' = "remove_failed"
            \/ /\ ClientReady(Provider(ai_agents, "editor"))
               /\ calls' = Append(calls, Call("cleanup", iteration, TRUE, TRUE))
               /\ \E cleaned \in CleanupResponses :
                    /\ cleaned_content' = cleaned
                    /\ IF CleanupAccepted(cleaned, writer_result)
                         THEN /\ content' = cleaned
                              /\ label_quality_note' = "removed"
                         ELSE /\ content' = writer_result
                              /\ label_quality_note' = ""

\* the dict the Edit response decodes to, or the degraded one
EditParse(r, original) ==
  IF r.kind = "object"
    THEN [improved_content |-> r.improved_content,
          seo_title |-> r.seo_title, hashtags |-> r.hashtags]
    ELSE [improved_content |-> original, seo_title |-> "text",
          hashtags |-> [kind |-> "list", list |-> <<>>]]

\* variant: the popped tag is appended without `if tag not in hashtags`
RECURSIVE PadHashtags_NoSkip(_, _)
PadHashtags_NoSkip(hashtags, pool) ==
  IF Len(hashtags) < HashtagTarget /\ pool # <<>>
    THEN PadHashtags_NoSkip(Append(hashtags, Head(pool)), Tail(pool))
    ELSE hashtags

\* while len(hashtags) < 30 and generic_tags: pop the first pool tag and
\* append it unless it is in the list
RECURSIVE PadHashtags(_, _)
PadHashtags(hashtags, pool) ==
  IF Len(hashtags) < HashtagTarget /\ pool # <<>>
    THEN PadHashtags(IF Head(pool) \in Range(hashtags)
                       THEN hashtags ELSE Append(hashtags, Head(pool)),
                     Tail(pool))
    ELSE hashtags

\* the padding loop, then hashtags[:30]
PaddedHashtags(hashtags) ==
  Prefix(PadHashtags(hashtags, generic_tags), HashtagTarget)

\* editor_stage's return value, from the decoded dict
EditorReturn(result, original, note) ==
  [status |-> "completed",
   improved_content |-> IF result.improved_content = "absent"
                          THEN original ELSE result.improved_content,
   seo_title |-> IF result.seo_title = "absent"
                   THEN "text" ELSE result.seo_title,
   hashtags |-> PaddedHashtags(result.hashtags.list),
   quality_issues |-> IF note = "" THEN <<>> ELSE <<note>>]

EditorCall ==
  /\ pc = "edit"
  /\ UNCHANGED <<fn_arg, fn_ret, input, installed, clients, ai_agents, opener_result,
                 researcher_result, iteration, revision_feedback,
                 writer_result, content, detected_labels, cleaned_content,
                 label_quality_note, ai_check, quality_warning>>
  /\ \/ /\ CallFails("editor", iteration)
        /\ UNCHANGED <<editor_result, final_content, stages_result>>
     \/ /\ CallReturns("editor", iteration)
        /\ \E r \in EditResponses :
             LET result == EditParse(r, content)
                 ret    == EditorReturn(result, content, label_quality_note)
             IN  IF result.hashtags.kind = "null"
                   \* len(None): TypeError, not caught in editor_stage
                   THEN /\ Fatal
                        /\ UNCHANGED <<editor_result, final_content,
                                       stages_result>>
                   ELSE /\ editor_result' = ret
                        /\ stages_result' =
                             Put(stages_result, StageKey("editor", iteration), ret)
                        /\ final_content' = ret.improved_content
                        /\ pc' = AfterStage("editor")
                        /\ UNCHANGED <<output, exit_code, printed>>

(***************************************************************************)
(* generate_blog_post: the score check that closes an iteration, and the   *)
(* result                                                                   *)
(***************************************************************************)
\* variant: the last round leaves the loop as if its check had passed
LoopDecision_LastPasses(passed, it) ==
  IF passed \/ it = MAX_ITERATIONS THEN "pass" ELSE "retry"

\* variant: `while True` in place of the bounded range
LoopDecision_NoLimit(passed, it) ==
  IF passed THEN "pass" ELSE "retry"

\* variant: `break` is missing, a passed check goes on to the next round
LoopDecision_NoBreak(passed, it) ==
  IF it < MAX_ITERATIONS THEN "retry"
  ELSE IF passed THEN "pass"
  ELSE "exhausted"

\* variant: the loop gives up one iteration early
LoopDecision_EarlyExhaust(passed, it) ==
  IF passed THEN "pass"
  ELSE IF it < MAX_ITERATIONS - 1 THEN "retry"
  ELSE "exhausted"

\* if ai_check['passed'] ... elif iteration < MAX_ITERATIONS ... else
LoopDecision(passed, it) ==
  IF passed THEN "pass"
  ELSE IF it < MAX_ITERATIONS THEN "retry"
  ELSE "exhausted"

\* variant: the new lines are appended to the feedback of the round before
Feedback_Appended(previous, report) ==
  [issues |-> previous.issues \o report.issues, score |-> report.score]

\* revision_feedback = "\n".join(issues); revision_feedback += score line:
\* the value of the round before is dropped
Feedback(previous, report) ==
  [issues |-> report.issues, score |-> report.score]

\* variant: `issues` is a list that outlives the call and keeps growing
ScoreCall_Accumulating ==
  [check_ai_detection(final_content) EXCEPT !.issues = ai_check.issues \o @]

\* check_ai_detection(final_content), as the loop and the code after it
\* call it
ScoreCall == check_ai_detection(final_content)

Score ==
  /\ pc = "score"
  /\ UNCHANGED <<fn_arg, fn_ret, input, installed, clients, ai_agents, calls, opener_result,
                 researcher_result, writer_result, content, detected_labels, cleaned_content,
                 label_quality_note, editor_result, final_content, output,
                 exit_code, printed>>
  /\ ai_check' = ScoreCall
  /\ LET traced == Put(stages_result, StageKey("ai_check", iteration), ai_check')
     IN  IF LoopDecision(ai_check'.passed, iteration) = "pass"
           THEN /\ stages_result' = Put(traced, "final_iteration", iteration)
                /\ pc' = "assemble"
                /\ UNCHANGED <<iteration, revision_feedback, quality_warning>>
         ELSE IF LoopDecision(ai_check'.passed, iteration) = "retry"
           THEN /\ stages_result' = traced
                /\ revision_feedback' = Feedback(revision_feedback, ai_check')
                /\ iteration' = iteration + 1
                /\ pc' = "writer"
                /\ UNCHANGED quality_warning
         ELSE /\ quality_warning' = TRUE
              /\ stages_result' =
                   Put(traced, "quality_warning_reason", ai_check'.issues)
              /\ pc' = "assemble"
              /\ UNCHANGED <<iteration, revision_feedback>>

\* variant: the key looked up is never the key written
IterationsUsed_DefaultOnly(stages) == MAX_ITERATIONS

\* stages_result.get('final_iteration', MAX_ITERATIONS)
IterationsUsed(stages) ==
  IF "final_iteration" \in DOMAIN stages
    THEN stages["final_iteration"] ELSE MAX_ITERATIONS

\* calculate_seo_score: title.lower() raises AttributeError on None
SeoScoreRaises(title) == title = "null"

Assemble ==
  /\ pc = "assemble"
  /\ UNCHANGED <<fn_arg, fn_ret, input, installed, clients, ai_agents, calls, opener_result,
                 researcher_result, iteration, revision_feedback,
                 writer_result, content, detected_labels, cleaned_content, label_quality_note,
                 editor_result, final_content, ai_check, stages_result,
                 quality_warning>>
  /\ LET final_ai_check == ScoreCall
     IN  IF SeoScoreRaises(editor_result.seo_title)
           THEN Fatal
           ELSE Exit([NoOutput EXCEPT
                        !.kind = "result",
                        !.content = final_content,
                        !.hashtags = editor_result.hashtags,
                        !.qualityWarning = quality_warning,
                        !.iterationsUsed = IterationsUsed(stages_result),
                        !.aiDetectionScore = final_ai_check.score,
                        !.aiDetectionIssues = final_ai_check.issues,
                        !.stages = stages_result], 0)

(***************************************************************************)
(* generate_test_sample                                                     *)
(***************************************************************************)
\* what the writer backend can answer to the preview prompt
TestResponses == WriterResponses \cup {"tPadded"}

\* content.strip() and the two re.sub calls: of the texts here only tPadded
\* has whitespace at its ends, and none has emphasis marks or blank runs
TestCleanup(r) == IF r = "tPadded" THEN "tStripped" ELSE r

\* variant: the handler of generate_test_sample re-raises
TestFailure_Raised == Fatal

\* except Exception as e: return {"success": False, "error": str(e), ...},
\* which main prints
TestFailure ==
  Exit([NoOutput EXCEPT !.kind = "test", !.success = FALSE,
                        !.error = "call failed"], 0)

TestSample ==
  /\ pc = "test"
  /\ UNCHANGED <<fn_arg, fn_ret, input, installed, clients, ai_agents,
                 opener_result, researcher_result, iteration,
                 revision_feedback, writer_result, content, detected_labels,
                 cleaned_content, label_quality_note, editor_result,
                 final_content, ai_check, stages_result, quality_warning>>
  /\ \/ /\ \/ /\ ~ClientReady(Provider(ai_agents, "writer"))
              /\ calls' = Append(calls, Call("test", 0, FALSE, FALSE))
           \/ /\ ClientReady(Provider(ai_agents, "writer"))
              /\ calls' = Append(calls, Call("test", 0, TRUE, FALSE))
        /\ TestFailure
     \/ /\ ClientReady(Provider(ai_agents, "writer"))
        /\ calls' = Append(calls, Call("test", 0, TRUE, TRUE))
        /\ \E r \in TestResponses :
             LET cleaned == TestCleanup(r)
                 report  == check_ai_detection(cleaned)
             IN  Exit([NoOutput EXCEPT
                         !.kind = "test", !.success = TRUE,
                         !.content = cleaned,
                         !.aiDetectionScore = report.score,
                         !.aiDetectionPassed = report.passed,
                         !.aiDetectionIssues = report.issues], 0)

(***************************************************************************)
(* The run.                                                                 *)
(***************************************************************************)
Next ==
  \/ Main
  \/ OpenerStage
  \/ ResearcherStage
  \/ WriterStage
  \/ EditorSanitize
  \/ EditorCall
  \/ Score
  \/ Assemble
  \/ TestSample

Spec == Init /\ [][Next]_vars

\* control leaves the Score step: check_ai_detection is a computation over a
\* finite text that calls no provider
ScoreEnds == pc = "score" /\ pc' \in {"writer", "assemble"}

\* control leaves the assembly of the result, which calls no provider either
AssembleEnds == pc = "assemble" /\ pc' = "exit"

\* The program is one sequential process: between two generation calls it
\* runs straight-line code and loops over finite lists, so once every
\* generation call returns or raises, the step whose turn it is is taken.
Fairness ==
  /\ WF_vars(Main)
  /\ WF_vars(TestSample)
  /\ WF_vars(OpenerStage)
  /\ WF_vars(ResearcherStage)
  /\ WF_vars(WriterStage)
  /\ WF_vars(EditorSanitize)
  /\ WF_vars(EditorCall)
  /\ WF_pc(ScoreEnds)
  /\ WF_pc(AssembleEnds)

SpecFair == Spec /\ Fairness

(***************************************************************************)
(* check_ai_detection applied on its own to a text given by its features.  *)
(***************************************************************************)
\* none of the pipeline has run
PipelineIdle ==
  /\ input = NoObject("none")
  /\ installed = {"openai"}
  /\ clients = {}
  /\ ai_agents = <<>>
  /\ calls = <<>>
  /\ opener_result = NoOpener
  /\ researcher_result = "none"
  /\ iteration = 0
  /\ revision_feedback = NoFeedback
  /\ writer_result = "tEmpty"
  /\ content = "tEmpty"
  /\ detected_labels = <<>>
  /\ cleaned_content = "none"
  /\ label_quality_note = ""
  /\ editor_result = NoEditor
  /\ final_content = "tEmpty"
  /\ ai_check = NoReport
  /\ stages_result = <<>>
  /\ quality_warning = FALSE
  /\ output = NoOutput
  /\ exit_code = -1
  /\ printed = 0

pipeline_vars ==
  <<input, installed, clients, ai_agents, calls, opener_result,
    researcher_result, iteration, revision_feedback, writer_result, content,
    detected_labels, cleaned_content, label_quality_note, editor_result,
    final_content, ai_check, stages_result, quality_warning, output,
    exit_code, printed>>

\* the stripped pieces of a text: none; four long pieces and one of exactly
\* 10 characters; five equal pieces of 11 characters; five and seven pieces
\* of varied or uniform length
\* six pieces of 40 or 41 characters that start alike, in two ways, or each
\* in its own way
NearUniformSix ==
  { <<Sent(40, 1), Sent(41, 1), Sent(40, 1), Sent(40, 1), Sent(41, 1),
      Sent(40, 1)>>,
    <<Sent(40, 1), Sent(41, 2), Sent(40, 1), Sent(40, 2), Sent(41, 1),
      Sent(40, 2)>>,
    <<Sent(40, 1), Sent(41, 2), Sent(40, 3), Sent(40, 4), Sent(41, 5),
      Sent(40, 6)>> }

\* five pieces with three ways of starting (diversity 0.6) whose lengths
\* vary by a little more than 0.3 of their mean: no flag is raised
BoundaryFive ==
  <<Sent(14, 1), Sent(30, 1), Sent(20, 2), Sent(30, 2), Sent(16, 3)>>

SentenceChoices ==
  { <<>>, BoundaryFive,
    <<Sent(20, 1), Sent(25, 2), Sent(20, 3), Sent(25, 4), Sent(10, 5)>>,
    <<Sent(11, 1), Sent(11, 1), Sent(11, 1), Sent(11, 1), Sent(11, 1)>>,
    <<Sent(12, 1), Sent(30, 2), Sent(18, 3), Sent(25, 4), Sent(14, 5)>>,
    <<Sent(40, 1), Sent(41, 1), Sent(40, 1), Sent(40, 1), Sent(41, 2),
      Sent(40, 2), Sent(40, 1)>> }
  \cup NearUniformSix


\* len(content), and how many of its characters are whitespace at its ends
LenChoices ==
  {0, MinContentLen - 1, MinContentLen, MinContentLen + 20, 4 * MinContentLen}

PadChoices == {0, MaxPad}

SentLens(sents) == [i \in 1..Len(sents) |-> sents[i].len]

\* the features of a text: the pieces and their terminators fit in the
\* stripped text, and so do the occurrences counted (each at least two
\* characters long)
ScorerInputs ==
  { t \in UNION { [ len : {l},
                    stripped : { l - p : p \in { q \in PadChoices :
                                                  q < l \/ q = 0 } },
                    sents : SentenceChoices,
                    phrases : {0, 1, 4, 6, 14}, thus : {0, 2, 3},
                    transOther : {0, 1, 5},
                    passive : {0, 2, 3, 14}, generic : {0, 3, 4, 7} ]
                  : l \in LenChoices } :
      /\ SumSeq(SentLens(t.sents)) + Len(t.sents) <= t.stripped
      /\ 2 * (t.phrases + t.thus + t.transOther + t.passive + t.generic)
           <= t.stripped }

InitScorer ==
  /\ PipelineIdle
  /\ pc = "scorer"
  /\ fn_arg \in ScorerInputs
  /\ fn_ret = <<>>

ScorerApply ==
  /\ pc = "scorer"
  /\ fn_ret' = AiReport(fn_arg)
  /\ pc' = "scored"
  /\ UNCHANGED fn_arg
  /\ UNCHANGED pipeline_vars

NextScorer == ScorerApply

SpecScorer == InitScorer /\ [][NextScorer]_vars

(***************************************************************************)
(* parse_prompt, and the request generate_blog_post builds from it.  A     *)
(* prompt is its lines; a line is whether it has a ':', the labels its key *)
(* (the part before the first ':', stripped and lower-cased) contains, and *)
(* its value (the rest), a sequence of characters.                          *)
(***************************************************************************)
\* '0' and '1' are decimal digits; '²' is a digit for str.isdigit that
\* int() does not accept; ' ' is whitespace
ValueChars == {"0", "1", "²", "x", ",", " "}

DecimalChars == {"0", "1"}

\* str.isdigit
IsDigit(c) == c \in {"0", "1", "²"}

DigitValue(c) == IF c = "1" THEN 1 ELSE 0

\* str.strip
RECURSIVE StripLeft(_)
StripLeft(str) ==
  IF str # <<>> /\ Head(str) = " " THEN StripLeft(Tail(str)) ELSE str

RECURSIVE StripRight(_)
StripRight(str) ==
  IF str # <<>> /\ str[Len(str)] = " "
    THEN StripRight(SubSeq(str, 1, Len(str) - 1)) ELSE str

Strip(str) == StripRight(StripLeft(str))

\* str.split(',')
RECURSIVE SplitComma(_)
SplitComma(str) ==
  IF \E i \in 1..Len(str) : str[i] = ","
    THEN LET i == CHOOSE j \in 1..Len(str) :
                    /\ str[j] = ","
                    /\ \A k \in 1..(j - 1) : str[k] # ","
         IN  <<SubSeq(str, 1, i - 1)>>
             \o SplitComma(SubSeq(str, i + 1, Len(str)))
    ELSE <<str>>

\* [k.strip() for k in value.split(',') if k.strip()]
Keywords(value) ==
  LET parts == SplitComma(value)
  IN  SelectSeq([i \in 1..Len(parts) |-> Strip(parts[i])],
                LAMBDA k : k # <<>>)

\* ''.join(filter(str.isdigit, value))
Digits(value) == SelectSeq(value, IsDigit)

RECURSIVE DecimalValue(_)
DecimalValue(d) ==
  IF d = <<>> THEN 0
  ELSE 10 * DecimalValue(SubSeq(d, 1, Len(d) - 1)) + DigitValue(d[Len(d)])

\* int(text): ValueError for the empty text and for a non-decimal digit
IntOf(d) ==
  IF d = <<>> \/ \E i \in 1..Len(d) : d[i] \notin DecimalChars
    THEN [ok |-> FALSE, n |-> 0]
    ELSE [ok |-> TRUE, n |-> DecimalValue(d)]

DefaultTargetLength == 1500

\* variant: the conversion is not wrapped in try/except
TargetLength_NoCatch(value) ==
  LET r == IntOf(Digits(value))
  IN  IF r.ok THEN [raised |-> FALSE, n |-> r.n]
      ELSE [raised |-> TRUE, n |-> 0]

\* try: int(...) except: 1500
TargetLength(value) ==
  LET r == IntOf(Digits(value))
  IN  IF r.ok THEN [raised |-> FALSE, n |-> r.n]
      ELSE [raised |-> FALSE, n |-> DefaultTargetLength]

\* the branch of the if/elif chain a key takes
Label(key) ==
  IF "topic" \in key THEN "topic"
  ELSE IF "tone" \in key THEN "tone"
  ELSE IF "keyword" \in key THEN "keywords"
  ELSE IF "length" \in key THEN "target_length"
  ELSE "none"

\* the loop body: what one line does to data
ParseLine(line, parsed) ==
  IF ~line.sep \/ Label(line.key) = "none" THEN parsed
  ELSE LET value == Strip(line.value)
       IN  IF Label(line.key) = "topic"
             THEN [parsed EXCEPT !.data = Put(@, "topic", value)]
           ELSE IF Label(line.key) = "tone"
             THEN [parsed EXCEPT !.data = Put(@, "tone", value)]
           ELSE IF Label(line.key) = "keywords"
             THEN [parsed EXCEPT !.data = Put(@, "keywords", Keywords(value))]
           ELSE LET r == TargetLength(value)
                IN  IF r.raised THEN [parsed EXCEPT !.raised = TRUE]
                    ELSE [parsed EXCEPT
                            !.data = Put(@, "target_length", r.n)]

RECURSIVE ParseLines(_, _)
ParseLines(lines, parsed) ==
  IF lines = <<>> \/ parsed.raised THEN parsed
  ELSE ParseLines(Tail(lines), ParseLine(Head(lines), parsed))

parse_prompt(prompt) == ParseLines(prompt, [raised |-> FALSE, data |-> <<>>])

Untitled == <<"Untitled">>

\* dict.get(key, default)
Get(d, k, default) == IF k \in DOMAIN d THEN d[k] ELSE default

\* topic, tone, keywords and target_length as generate_blog_post sets them
Request(data, title, tags) ==
  [topic |-> Get(data, "topic",
                 IF title.given /\ title.text # <<>>
                   THEN title.text ELSE Untitled),
   tone |-> Get(data, "tone", <<"professional">>),
   keywords |-> Get(data, "keywords", tags),
   target_length |-> Get(data, "target_length", DefaultTargetLength)]

KeyChoices ==
  { {}, {"topic"}, {"tone"}, {"keyword"}, {"length"}, {"topic", "length"} }

Values == UNION { [1..n -> ValueChars] : n \in 0..MaxValueLen }

Line(sep, key, value) == [sep |-> sep, key |-> key, value |-> value]

\* a line without ':' has no key and no value of its own
Lines ==
  { Line(TRUE, key, value) : key \in KeyChoices, value \in Values }
  \cup { Line(FALSE, key, <<>>) : key \in KeyChoices }

\* the lines that two-line prompts are made of
ShortLines ==
  { Line(TRUE, {"length"}, <<"1", "0">>), Line(TRUE, {"length"}, <<"x">>),
    Line(TRUE, {"topic"}, <<"x">>), Line(TRUE, {}, <<"1">>),
    Line(TRUE, {"keyword"}, <<"x", ",", "1">>), Line(FALSE, {"length"}, <<>>) }

\* prompt.split('\n') has at least one line
Prompts ==
  { <<l>> : l \in Lines } \cup { <<l, m>> : l \in ShortLines, m \in ShortLines }

\* main: input_data.get("title"), None when absent
CallerTitles ==
  { [given |-> FALSE, text |-> <<>>], [given |-> TRUE, text |-> <<>>],
    [given |-> TRUE, text |-> <<"x">>] }

\* main: input_data.get("tags", [])
TagChoices == { <<>>, << <<"x">> >> }

ParseInputs == [prompt : Prompts, title : CallerTitles, tags : TagChoices]

InitParse ==
  /\ PipelineIdle
  /\ pc = "parse"
  /\ fn_arg \in ParseInputs
  /\ fn_ret = <<>>

\* parse_prompt, then the request when it returned
ParseApply ==
  /\ pc = "parse"
  /\ LET parsed == parse_prompt(fn_arg.prompt)
     IN  fn_ret' =
           [raised |-> parsed.raised,
            data |-> parsed.data,
            request |-> IF parsed.raised THEN <<>>
                        ELSE Request(parsed.data, fn_arg.title, fn_arg.tags)]
  /\ pc' = "parsed"
  /\ UNCHANGED fn_arg
  /\ UNCHANGED pipeline_vars

NextParse == ParseApply

SpecParse == InitParse /\ [][NextParse]_vars

(***************************************************************************)
(* calculate_seo_score applied on its own.  Its arguments are given by     *)
(* what the function reads of them: the occurrences of each keyword in the *)
(* lower-cased content, the whitespace-separated words, the keywords found *)
(* in the title, the lengths, and the occurrences of '## ' and '### '.     *)
(***************************************************************************)
\* variant: three headings already reach the top band
HeadingScore_TopAtThree(h2_count, h3_count) ==
  Min(100, (h2_count + h3_count) * 34)

\* min(100, (h2_count + h3_count) * 20)
HeadingScore(h2_count, h3_count) == Min(100, (h2_count + h3_count) * 20)

\* min(100, int(kw_density * 20)) with kw_density = total / words * 100
DensityScore(total, words) ==
  IF words > 0 THEN Min(100, (2000 * total) \div words) ELSE 0

TitleLenScore(title_len) ==
  IF 50 <= title_len /\ title_len <= 60 THEN 100
  ELSE IF 40 <= title_len /\ title_len <= 70 THEN 80
  ELSE 50

MetaScore(meta_len) ==
  IF meta_len = 0 THEN 0
  ELSE IF 120 <= meta_len /\ meta_len <= 160 THEN 100
  ELSE IF 100 <= meta_len /\ meta_len <= 170 THEN 80
  ELSE 50

LengthScore(content_len) ==
  IF content_len >= 2000 THEN 100
  ELSE IF content_len >= 1500 THEN 80
  ELSE IF content_len >= 1000 THEN 60
  ELSE 40

\* the six entries of `scores`, in the order they are appended
SeoScores(f) ==
  <<DensityScore(SumSeq(f.keyword_counts), f.words),
    Min(100, f.title_kw_count * 50),
    TitleLenScore(f.title_len),
    MetaScore(f.meta_len),
    HeadingScore(f.h2_count, f.h3_count),
    LengthScore(f.content_len)>>

SeoIssues(f) ==
  SelectSeq([i \in 1..Len(f.keyword_counts) |->
               IF f.keyword_counts[i] < 3 THEN "keyword" ELSE ""],
            LAMBDA x : x # "")
  \o (IF f.title_kw_count = 0 THEN <<"title_keyword">> ELSE <<>>)
  \o (IF TitleLenScore(f.title_len) = 50 THEN <<"title_length">> ELSE <<>>)
  \o (IF MetaScore(f.meta_len) = 50 THEN <<"meta_length">>
      ELSE IF f.meta_len = 0 THEN <<"meta_missing">> ELSE <<>>)
  \o (IF f.h2_count < 3 THEN <<"headings">> ELSE <<>>)
  \o (IF LengthScore(f.content_len) = 40 THEN <<"length">> ELSE <<>>)

\* the report, with the list `scores` next to it
calculate_seo_score(f) ==
  [score |-> SumSeq(SeoScores(f)) \div Len(SeoScores(f)),
   issues |-> SeoIssues(f),
   keyword_counts |-> f.keyword_counts,
   scores |-> SeoScores(f)]

\* an all-whitespace content has no word, keyword or heading; every '### '
\* holds a '## '; a title holds a keyword only if it is long enough
SeoInputs ==
  { f \in [ keyword_counts : {<<0>>, <<4>>, <<2, 3>>},
            words : {0, 80, 81, MaxWords},
            title_kw_count : {0, 1},
            title_len : {22, 40, 55, 71},
            meta_len : {0, 99, 100, 140, 171},
            h2_count : {0, 3, 5},
            h3_count : {0, 1},
            content_len : {999, 1000, 1500, 2000, 2200} ] :
      /\ f.words = 0 => (SumSeq(f.keyword_counts) = 0 /\ f.h2_count = 0)
      /\ f.h3_count <= f.h2_count
      /\ 2 * SumSeq(f.keyword_counts) <= f.words \/ f.words = 0 }

InitSeo ==
  /\ PipelineIdle
  /\ pc = "seo"
  /\ fn_arg \in SeoInputs
  /\ fn_ret = <<>>

SeoApply ==
  /\ pc = "seo"
  /\ fn_ret' = calculate_seo_score(fn_arg)
  /\ pc' = "seo_scored"
  /\ UNCHANGED fn_arg
  /\ UNCHANGED pipeline_vars

NextSeo == SeoApply

SpecSeo == InitSeo /\ [][NextSeo]_vars

(***************************************************************************)
(* The hashtag padding of editor_stage applied on its own to the list the  *)
(* Edit response holds.                                                     *)
(***************************************************************************)
\* three pool tags (the first, the third and the last) and two tags of the
\* backend's own
ShortTagChars == {1, 3, 18, 101, 102}

\* short lists with repeats and pool tags in them, and lists of distinct
\* backend tags, alone and followed by two pool tags
HashtagLists ==
  UNION { [1..n -> ShortTagChars] : n \in 0..MaxShortTags }
  \cup { ModelTags(n) : n \in 0..MaxModelTags }
  \cup { ModelTags(n) \o <<3, 18>> : n \in 0..MaxModelTags }

InitPad ==
  /\ PipelineIdle
  /\ pc = "pad"
  /\ fn_arg \in HashtagLists
  /\ fn_ret = <<>>

PadApply ==
  /\ pc = "pad"
  /\ fn_ret' = PaddedHashtags(fn_arg)
  /\ pc' = "padded"
  /\ UNCHANGED fn_arg
  /\ UNCHANGED pipeline_vars

NextPad == PadApply

SpecPad == InitPad /\ [][NextPad]_vars

(***************************************************************************)
(* Properties.                                                              *)
(***************************************************************************)
CallIndices(stage) == { i \in 1..Len(calls) : calls[i].stage = stage }

\* the calls of a stage that returned a response
Returned(stage) == { i \in CallIndices(stage) : calls[i].ok }

LastCall == calls[Len(calls)]

\* the input passes main's checks and starts generate_blog_post
PipelineRun ==
  /\ input.argv = "object"
  /\ input.layout # "malformed"
  /\ input.prompt = "text"
  /\ input.hasApiKeys /\ input.apiKeys # {}
  /\ ~input.testMode
  /\ pc # "main"

\* C1: in every run that returns a result, qualityWarning is true exactly
\* when three iterations ran and the third score report did not pass.
C1_QualityWarningIffExhausted ==
  output.kind = "result" =>
    (output.qualityWarning <=>
       /\ Cardinality(Returned("editor")) = 3
       /\ "ai_check_v3" \in DOMAIN output.stages
       /\ ~output.stages["ai_check_v3"].passed)

C1_Witness ==
  /\ output.kind = "result"
  /\ output.qualityWarning
  /\ Cardinality(Returned("editor")) = 3

\* C2: in every run that returns a result, iterationsUsed is in 1..3 and is
\* the number of Draft, Edit and Score steps the run executed.
C2_IterationsUsedCountsIterations ==
  output.kind = "result" =>
    /\ output.iterationsUsed \in 1..MAX_ITERATIONS
    /\ output.iterationsUsed = Cardinality(Returned("writer"))
    /\ output.iterationsUsed = Cardinality(Returned("editor"))
    /\ output.iterationsUsed =
         Cardinality({ k \in 1..MAX_ITERATIONS :
                         StageKey("ai_check", k) \in DOMAIN output.stages })

C2_Witness ==
  /\ output.kind = "result"
  /\ output.iterationsUsed = 2
  /\ Cardinality(Returned("editor")) = 2

\* C3 as stated: whenever a generation call of any stage has failed, the
\* corrective call of the label check included, the output is an error
\* object.
C3_AnyFailedCallIsFatal ==
  (\E i \in 1..Len(calls) :
     /\ calls[i].stage \in {"opener", "researcher", "writer", "editor", "cleanup"}
     /\ ~calls[i].ok)
  => output.kind = "error"

\* C3, amended: a failed Ideation, Research, Draft or Edit call ends the run
\* at once with an error object, exit status 1 and no result; a failed
\* corrective call is caught inside the Edit stage, which goes on to its
\* own call with the Draft text unchanged.
C3_StageCallFailureIsFatal ==
  /\ (\E i \in 1..Len(calls) :
        /\ calls[i].stage \in {"opener", "researcher", "writer", "editor"}
        /\ ~calls[i].ok)
     => /\ pc = "exit"
        /\ output = ErrorOutput("Generation failed")
        /\ exit_code = 1
        /\ ~LastCall.ok
  /\ (calls # <<>> /\ LastCall.stage = "cleanup" /\ ~LastCall.ok)
     => /\ pc = "edit"
        /\ output.kind = "none"
        /\ content = writer_result
        /\ label_quality_note = "remove_failed"

C3_Witness ==
  /\ calls # <<>>
  /\ LastCall.stage = "writer"
  /\ LastCall.sent /\ ~LastCall.ok
  /\ LastCall.iteration = 2
  /\ pc = "exit"

\* C4: the hashtag list of every Edit stage output, and of every result,
\* has exactly 30 entries.
C4_ThirtyHashtags ==
  /\ editor_result.status = "completed"
       => Len(editor_result.hashtags) = HashtagTarget
  /\ output.kind = "result" => Len(output.hashtags) = HashtagTarget

\* the credential or the client of a provider is missing
CredentialMissing(provider) ==
  CASE provider = "gemini" ->
         "google" \notin input.apiKeys \/ "genai" \notin installed
    [] provider = "perplexity" ->
         "perplexity" \notin input.apiKeys \/ "openai" \notin installed
    [] OTHER -> "openai" \notin input.apiKeys \/ "openai" \notin installed

\* the place of a call in one pass over the stages
StageRank(stage) ==
  CASE stage = "opener" -> 1
    [] stage = "researcher" -> 2
    [] stage = "writer" -> 3
    [] stage \in {"cleanup", "editor"} -> 4

\* C5 as stated: when the provider of some stage lacks its credential or
\* client, the run fails and no generation request of the run is sent.
C5_ConfigErrorBeforeAnyCall ==
  (PipelineRun /\ \E s \in Stages : CredentialMissing(Provider(ai_agents, s)))
  => /\ \A i \in 1..Len(calls) : ~calls[i].sent
     /\ pc = "exit" => output.kind = "error"

\* C5, amended: when the provider of a stage lacks its credential or
\* client, the run fails with an error, and no request is sent for that
\* stage or for a later one; the requests of the stages before it have been
\* sent by then.
C5_ConfigErrorAtFirstUnconfiguredStage ==
  \A s \in Stages :
    (PipelineRun /\ CredentialMissing(Provider(ai_agents, s)))
    => /\ \A i \in 1..Len(calls) :
            calls[i].sent => StageRank(calls[i].stage) < StageRank(s)
       /\ pc = "exit" => (output.kind = "error" /\ exit_code = 1)

C5_Witness ==
  /\ PipelineRun
  /\ pc = "exit"
  /\ CredentialMissing(Provider(ai_agents, "writer"))
  /\ Len(calls) = 3
  /\ calls[1].sent /\ calls[2].sent
  /\ LastCall.stage = "writer" /\ ~LastCall.sent

ApiKeysError ==
  ErrorOutput("API keys are required. Please add your AI API keys in settings.")

\* C6 as stated: for every input object whose apiKeys is empty or absent,
\* whatever its other fields, the output is the API-keys error and no
\* generation call is attempted.
C6_NoKeysAlwaysKeysError ==
  (pc = "exit" /\ input.argv = "object"
     /\ (~input.hasApiKeys \/ input.apiKeys = {}))
  => (output = ApiKeysError /\ calls = <<>>)

\* C6, amended: for every input object with a non-empty prompt, a layout
\* that is absent or an object, and apiKeys empty or absent, the output is
\* the API-keys error and no generation call is attempted.
C6_NoKeysWithPromptKeysError ==
  (input.argv = "object" /\ input.prompt = "text"
     /\ input.layout # "malformed"
     /\ (~input.hasApiKeys \/ input.apiKeys = {}))
  => /\ calls = <<>>
     /\ pc \in {"main", "exit"}
     /\ pc = "exit" => output = ApiKeysError

C6_Witness ==
  /\ pc = "exit"
  /\ input.prompt = "text"
  /\ input.hasApiKeys /\ input.apiKeys = {}
  /\ input.testMode
  /\ output = ApiKeysError

\* C7: for every input object whose prompt is missing or empty, the run
\* prints an error object and exits with status 1, without initialising a
\* client, entering a stage or the test path, or making a generation call.
C7_PromptRequired ==
  (input.argv = "object" /\ input.prompt \in {"absent", "empty"})
  => /\ calls = <<>>
     /\ clients = {}
     /\ stages_result = <<>>
     /\ pc \in {"main", "exit"}
     /\ pc = "exit" => (output.kind = "error" /\ exit_code = 1)

C7_Witness ==
  /\ pc = "exit"
  /\ input.prompt = "empty"
  /\ input.apiKeys = KeyNames
  /\ input.testMode
  /\ output = ErrorOutput("Prompt is required")

\* C8: after the Ideation call or the Edit call has returned a text, of
\* whatever shape, the run is not aborted.
C8_ResponseShapeNeverAborts ==
  (calls # <<>> /\ LastCall.stage \in {"opener", "editor"} /\ LastCall.ok)
  => output.kind # "error"

\* the lines a configured label pattern matches
LabelLines == {"h2_intro", "h2_body1", "num_intro", "ordinal", "h2_num_intro"}

HasLabelLine(t) == \E i \in 1..Len(Text[t].lines) : Text[t].lines[i] \in LabelLines

\* the label check of iteration k is over
Sanitized(k) ==
  /\ StageKey("writer", k) \in DOMAIN stages_result
  /\ iteration > k \/ pc # "sanitize"

\* C9: in every Edit stage invocation the corrective call is made exactly
\* when the Draft text has a line that a label pattern matches, then once
\* and before the stage's own call; the detection list is non-empty exactly
\* for such a text.
C9_CleanupIffLabelDetected ==
  \A k \in 1..MAX_ITERATIONS :
    Sanitized(k) =>
      LET draft   == stages_result[StageKey("writer", k)].content
          cleanup == { i \in CallIndices("cleanup") : calls[i].iteration = k }
          edit    == { i \in CallIndices("editor") : calls[i].iteration = k }
      IN  /\ Cardinality(cleanup) = IF HasLabelLine(draft) THEN 1 ELSE 0
          /\ \A i \in cleanup : \A j \in edit : i < j
          /\ k = iteration => (detected_labels # <<>> <=> HasLabelLine(draft))

C9_Witness ==
  /\ pc = "score"
  /\ iteration = 2
  /\ detected_labels # <<>>
  /\ \E i \in CallIndices("cleanup") : \E j \in CallIndices("editor") :
       calls[i].iteration = 2 /\ calls[j].iteration = 2 /\ i < j

\* C10 as stated: a returned rewrite replaces the Draft text exactly when
\* its length is at least half of the Draft text's length.
C10_AcceptedFromHalf ==
  (cleaned_content # "none" /\ pc # "sanitize")
  => IF 2 * Text[cleaned_content].len >= Text[writer_result].len
       THEN content = cleaned_content
       ELSE content = writer_result

\* C10, amended: a returned rewrite replaces the Draft text exactly when
\* its length is more than half of the Draft text's length; a rewrite of
\* exactly half the length is rejected and the Draft text is kept.
C10_AcceptedAboveHalf ==
  (cleaned_content # "none" /\ pc # "sanitize")
  => IF 2 * Text[cleaned_content].len > Text[writer_result].len
       THEN content = cleaned_content
       ELSE content = writer_result

C10_Witness ==
  /\ pc = "edit"
  /\ cleaned_content = "tHalf"
  /\ 2 * Text[cleaned_content].len = Text[writer_result].len
  /\ content = writer_result

\* C11: whenever the label scan of an Edit stage found a label and the
\* Draft text was not replaced by a rewrite, the stage's quality_issues
\* holds a note that labels were detected and not corrected.
C11_UncorrectedLabelsAreNoted ==
  (pc = "score" /\ detected_labels # <<>> /\ content = writer_result)
  => "remove_failed" \in Range(editor_result.quality_issues)

\* C13: when the loop ends without a passing score, no Edit output of an
\* earlier iteration of the run scores strictly lower than the content
\* returned.
C13_ReturnedContentIsBest ==
  (output.kind = "result" /\ output.qualityWarning)
  => \A k \in 1..MAX_ITERATIONS :
       StageKey("editor", k) \in DOMAIN output.stages
       => check_ai_detection(
            output.stages[StageKey("editor", k)].improved_content).score
          >= check_ai_detection(output.content).score

\* the third score check of the run is over and was not passed
LoopExhausted ==
  /\ StageKey("ai_check", MAX_ITERATIONS) \in DOMAIN stages_result
  /\ ~stages_result[StageKey("ai_check", MAX_ITERATIONS)].passed

\* C12: a run whose three iterations all failed the score check ends with a
\* complete result and exit status 0, never an error object; the result
\* carries qualityWarning true and the third report's issue list, both as
\* quality_warning_reason and as aiDetectionIssues.
C12_ExhaustionReturnsResult ==
  (pc = "exit" /\ LoopExhausted)
  => /\ output.kind = "result"
     /\ exit_code = 0
     /\ output.qualityWarning
     /\ "quality_warning_reason" \in DOMAIN output.stages
     /\ output.stages["quality_warning_reason"]
          = stages_result[StageKey("ai_check", MAX_ITERATIONS)].issues
     /\ output.aiDetectionIssues
          = stages_result[StageKey("ai_check", MAX_ITERATIONS)].issues

\* C14: check_ai_detection returns score 0, passed true and no issues for
\* every text shorter than 100 characters, for every text whose length
\* without the whitespace at its ends is below 100, and for every text with
\* fewer than 5 sentences of more than 10 characters.
C14_ShortTextsScoreZero ==
  (pc = "scored"
   /\ \/ fn_arg.len < MinContentLen
      \/ fn_arg.stripped < MinContentLen
      \/ Len(Qualifying(fn_arg.sents)) < MinSentences)
  => fn_ret = ZeroReport

\* C15: every report of check_ai_detection, short-circuit or scored, has a
\* score in 0..100 and passed true exactly when the score is below 50.
C15_ScoreRangeAndPassed ==
  pc = "scored"
  => /\ fn_ret.score \in 0..100
     /\ fn_ret.passed <=> (fn_ret.score < 50)

\* a scored text that lands on the threshold, and so fails
C15_Witness ==
  /\ pc = "scored"
  /\ Len(Qualifying(fn_arg.sents)) >= MinSentences
  /\ fn_ret.score = 50
  /\ ~fn_ret.passed

\* the lines of a prompt that take a branch of parse_prompt's chain
Recognised(line) == line.sep /\ Label(line.key) # "none"

\* the value of the last line of the prompt that takes branch `label`
LastValue(prompt, label) ==
  LET at == { i \in 1..Len(prompt) :
                Recognised(prompt[i]) /\ Label(prompt[i].key) = label }
      last == CHOOSE i \in at : \A j \in at : j <= i
  IN  Strip(prompt[last].value)

HasLine(prompt, label) ==
  \E i \in 1..Len(prompt) :
    Recognised(prompt[i]) /\ Label(prompt[i].key) = label

\* C16: parse_prompt raises for no prompt; lines without ':' or with an
\* unrecognised label change nothing; and the request built from its result
\* has target length 1500 when the length is missing or has no decodable
\* number, the caller's tags (an empty list when there are none) when the
\* keywords are missing, and the caller's title, else 'Untitled', when the
\* topic is missing.
C16_ParseNeverRaisesAndDefaults ==
  pc = "parsed"
  => /\ ~fn_ret.raised
     /\ fn_ret.data = parse_prompt(SelectSeq(fn_arg.prompt, Recognised)).data
     /\ DOMAIN fn_ret.data
          = { k \in {"topic", "tone", "keywords", "target_length"} :
                HasLine(fn_arg.prompt, k) }
     /\ (~HasLine(fn_arg.prompt, "target_length")
         \/ ~IntOf(Digits(LastValue(fn_arg.prompt, "target_length"))).ok)
        => fn_ret.request.target_length = 1500
     /\ ~HasLine(fn_arg.prompt, "keywords")
        => fn_ret.request.keywords = fn_arg.tags
     /\ ~HasLine(fn_arg.prompt, "topic")
        => fn_ret.request.topic
             = (IF fn_arg.title.given /\ fn_arg.title.text # <<>>
                  THEN fn_arg.title.text ELSE <<"Untitled">>)

\* a prompt of a line without ':' and a length line without a number, from
\* a caller with neither title nor tags
C16_Witness ==
  /\ pc = "parsed"
  /\ fn_arg.prompt = <<Line(FALSE, {"length"}, <<>>),
                       Line(TRUE, {"length"}, <<"x">>)>>
  /\ ~fn_arg.title.given
  /\ fn_arg.tags = <<>>
  /\ fn_ret.request.target_length = 1500
  /\ fn_ret.request.keywords = <<>>
  /\ fn_ret.request.topic = <<"Untitled">>

\* the first maximal run of decimal digits of a value
RECURSIVE TakeDigits(_)
TakeDigits(str) ==
  IF str # <<>> /\ Head(str) \in DecimalChars
    THEN <<Head(str)>> \o TakeDigits(Tail(str)) ELSE <<>>

RECURSIVE FirstDigitRun(_)
FirstDigitRun(str) ==
  IF str = <<>> THEN <<>>
  ELSE IF Head(str) \in DecimalChars THEN TakeDigits(str)
  ELSE FirstDigitRun(Tail(str))

\* C17: the target length parsed from a length line is the number written
\* by the first contiguous run of digits of its value, it is positive, and
\* it is 1500 when the value has no digit.
C17_FirstDigitRunPositive ==
  (pc = "parsed" /\ HasLine(fn_arg.prompt, "target_length"))
  => LET value == LastValue(fn_arg.prompt, "target_length")
     IN  /\ fn_ret.data["target_length"] > 0
         /\ fn_ret.data["target_length"]
              = (IF FirstDigitRun(value) = <<>> THEN 1500
                 ELSE DecimalValue(FirstDigitRun(value)))

\* the keys of iteration i in the trace
IterationKeys(i) ==
  CASE i = 1 -> {"writer_v1", "editor_v1", "ai_check_v1"}
    [] i = 2 -> {"writer_v2", "editor_v2", "ai_check_v2"}
    [] i = 3 -> {"writer_v3", "editor_v3", "ai_check_v3"}

\* the trace of a result has the entries of Ideation, Research and of the
\* iterations 1..iterationsUsed, and of no later iteration
TraceComplete ==
  output.kind = "result" =>
    /\ {"opener", "researcher"} \subseteq DOMAIN output.stages
    /\ \A i \in 1..MAX_ITERATIONS :
         IF i <= output.iterationsUsed
           THEN IterationKeys(i) \subseteq DOMAIN output.stages
           ELSE IterationKeys(i) \cap DOMAIN output.stages = {}
    /\ \A i \in 1..output.iterationsUsed :
         /\ output.stages[StageKey("writer", i)].status = "completed"
         /\ output.stages[StageKey("editor", i)].status = "completed"
         /\ output.stages[StageKey("ai_check", i)].score \in 0..100

\* a step keeps every entry the trace has
TraceKept ==
  \A k \in DOMAIN stages_result :
    /\ k \in DOMAIN stages_result'
    /\ stages_result'[k] = stages_result[k]

\* C18: the trace of a successful run with iterationsUsed = n holds the
\* Ideation and Research entries and the Draft, Edit and Score entries of
\* the iterations 1..n, keyed by stage and iteration, and none of a later
\* iteration; no step of a run overwrites or removes an entry of the trace.
C18_TraceCompleteAndKept == []TraceComplete /\ [][TraceKept]_vars

\* a run that passed at its second iteration
C18_Witness ==
  /\ output.kind = "result"
  /\ output.iterationsUsed = 2
  /\ IterationKeys(2) \subseteq DOMAIN output.stages
  /\ "writer_v3" \notin DOMAIN output.stages
  /\ output.stages["ai_check_v1"] # output.stages["ai_check_v2"]

\* the positions of a run inside the revision loop and after it
LoopPositions == {"writer", "sanitize", "edit", "score", "assemble"}

\* the Research entry researcher_stage returns
ResearchEntry ==
  [status |-> "completed", research_data |-> researcher_result,
   faq_research |-> opener_result.faq_candidates]

\* every Draft and Edit call so far was handed the Ideation and Research
\* outputs as they are now, and the trace holds them as they are now
ContextStable ==
  /\ \A i \in CallIndices("writer") \cup CallIndices("editor") :
       calls[i].ctx = StageContext
  /\ pc \in LoopPositions =>
       /\ "opener" \in DOMAIN stages_result
       /\ "researcher" \in DOMAIN stages_result
       /\ stages_result["opener"] = opener_result
       /\ stages_result["researcher"] = ResearchEntry
  /\ output.kind = "result" =>
       /\ "opener" \in DOMAIN output.stages
       /\ "researcher" \in DOMAIN output.stages
       /\ output.stages["opener"] = opener_result
       /\ output.stages["researcher"] = ResearchEntry

\* a step of the loop leaves the Ideation and Research outputs alone
ContextKept ==
  pc \in LoopPositions =>
    /\ opener_result' = opener_result
    /\ researcher_result' = researcher_result

\* C19: the Ideation and Research outputs are written once and no step of
\* the revision loop changes them; every Draft and Edit call of a run is
\* handed the same research notes, audience, additional keywords and FAQ
\* candidates; and the Ideation and Research entries of the trace at the
\* end of the run are what the two stages returned.
C19_ContextWriteOnce == []ContextStable /\ [][ContextKept]_vars

\* a run of three iterations on a full Ideation output
C19_Witness ==
  /\ output.kind = "result"
  /\ Cardinality(CallIndices("writer")) = MAX_ITERATIONS
  /\ Cardinality(CallIndices("editor")) = MAX_ITERATIONS
  /\ opener_result.faq_candidates = "list"
  /\ output.stages["opener"] = opener_result
  /\ \A i \in CallIndices("editor") : calls[i].ctx.faq_candidates = "list"

\* generate_blog_post returned: the loop ended and the scoring after it
\* did not raise
PipelineSucceeded ==
  /\ PipelineRun
  /\ "final_iteration" \in DOMAIN stages_result \/ quality_warning
  /\ ~SeoScoreRaises(editor_result.seo_title)

\* the fatal errors of a run that is over: no argument, an argument that is
\* not JSON, a missing prompt or missing API keys, a pipeline that raised
FatalError ==
  \/ input.argv \in {"none", "badjson"}
  \/ input.argv = "object" /\ input.layout # "malformed"
     /\ (PromptMissing \/ ApiKeysMissing)
  \/ PipelineRun /\ ~PipelineSucceeded

\* C20: a run prints exactly one JSON object, and nothing before it ends;
\* after a fatal error (no input, invalid JSON, a missing required input, a
\* failure in the full pipeline) the object is an error object and the exit
\* status is not 0; after a pipeline that succeeded the object is the result
\* and the exit status is 0.
C20_OneObjectPerRun ==
  /\ pc # "exit" => (printed = 0 /\ output.kind = "none")
  /\ pc = "exit" =>
       /\ printed = 1
       /\ output.kind \in {"error", "result", "test"}
       /\ FatalError =>
            (output.kind = "error" /\ output.error # "" /\ exit_code # 0)
       /\ PipelineSucceeded =>
            (output.kind = "result" /\ output.error = "" /\ exit_code = 0)

\* a pipeline that fails in its second iteration
C20_Witness ==
  /\ pc = "exit"
  /\ PipelineRun
  /\ iteration = 2
  /\ ~LastCall.ok
  /\ output.kind = "error"
  /\ printed = 1
  /\ exit_code = 1

\* the input passes main's checks and starts generate_test_sample
TestRun ==
  /\ input.argv = "object"
  /\ input.layout # "malformed"
  /\ input.prompt = "text"
  /\ input.hasApiKeys /\ input.apiKeys # {}
  /\ input.testMode
  /\ pc # "main"

\* C21: a test-mode run makes exactly one generation call, to the writer
\* provider, and none of the pipeline's; it ends with a result record and
\* exit status 0: success with the content, its score and its pass flag when
\* the call returned, success false with an error text when it failed.
C21_TestModeOneCallAlwaysRecord ==
  TestRun =>
    /\ pc = "test" => calls = <<>>
    /\ pc \in {"test", "exit"}
    /\ pc = "exit" =>
         /\ Len(calls) = 1
         /\ calls[1].stage = "test"
         /\ calls[1].sent <=> ClientReady(Provider(ai_agents, "writer"))
         /\ output.kind = "test"
         /\ exit_code = 0
         /\ calls[1].ok =>
              /\ output.success
              /\ output.error = ""
              /\ output.aiDetectionScore
                   = check_ai_detection(output.content).score
              /\ output.aiDetectionPassed
                   = check_ai_detection(output.content).passed
         /\ ~calls[1].ok =>
              (~output.success /\ output.error # "")

\* a preview whose call was sent and failed
C21_Witness ==
  /\ TestRun
  /\ pc = "exit"
  /\ calls[1].sent
  /\ ~calls[1].ok
  /\ ~output.success
  /\ exit_code = 0

\* the arguments of the scenario: one keyword found 4 times in a content of
\* 2200 characters with 3 '## ' headings, a title of 22 characters that
\* holds the keyword, a meta description of 140 characters
KayakScenario ==
  /\ fn_arg.keyword_counts = <<4>>
  /\ fn_arg.title_kw_count = 1
  /\ fn_arg.title_len = 22
  /\ fn_arg.meta_len = 140
  /\ fn_arg.h2_count = 3
  /\ fn_arg.h3_count = 0
  /\ fn_arg.content_len = 2200

\* C22 as stated: in the scenario every sub-score is 100 except the title
\* keyword sub-score, which is 50, and the composite is the integer mean of
\* the six.
C22_AllTopBandButTitleKeyword ==
  (pc = "seo_scored" /\ KayakScenario)
  => /\ fn_ret.scores = <<100, 50, 100, 100, 100, 100>>
     /\ fn_ret.score = SumSeq(fn_ret.scores) \div 6

\* C22: in the scenario the sub-scores are the keyword density score
\* min(100, 2000 * 4 \div words), 50 for the title keyword, 50 for the title
\* length, 100 for the meta description, 60 for the headings and 100 for
\* the content length, and the composite is their integer mean.
C22_ScenarioSubScores ==
  (pc = "seo_scored" /\ KayakScenario)
  => /\ fn_ret.scores
          = <<Min(100, 8000 \div fn_arg.words), 50, 50, 100, 60, 100>>
     /\ fn_ret.score = (Min(100, 8000 \div fn_arg.words) + 360) \div 6
     /\ fn_ret.issues = <<"title_length">>

\* the scenario on a content of 81 words: density 98, composite 76
C22_Witness ==
  /\ pc = "seo_scored"
  /\ KayakScenario
  /\ fn_arg.words = 81
  /\ fn_ret.scores = <<98, 50, 50, 100, 60, 100>>
  /\ fn_ret.score = 76

\* the features of the scenario: six pieces of near-identical length, of
\* the stock phrases only "이러한" and "따라서", the latter twice, and no
\* passive form or generalisation
StockPhraseScenario ==
  /\ fn_arg.sents \in NearUniformSix
  /\ fn_arg.phrases = 1
  /\ fn_arg.thus = 2
  /\ fn_arg.transOther = 0
  /\ fn_arg.passive = 0
  /\ fn_arg.generic = 0

\* C23 as stated: on the scenario text the uniformity issue is raised, the
\* stock-phrase sub-score is above 0 and passed is false.
C23_ScenarioFails ==
  (pc = "scored" /\ StockPhraseScenario)
  => /\ "uniformity" \in Range(fn_ret.issues)
     /\ SubScores(fn_arg).phrase > 0
     /\ ~fn_ret.passed

\* C23: on the scenario text the uniformity issue is raised, the
\* stock-phrase sub-score is 16 (two of the listed phrases occur), the score
\* is between 14 and 28 and passed is true.
C23_ScenarioPasses ==
  (pc = "scored" /\ StockPhraseScenario)
  => /\ "uniformity" \in Range(fn_ret.issues)
     /\ SubScores(fn_arg).phrase = 16
     /\ fn_ret.score \in 14..28
     /\ fn_ret.passed

\* the scenario with six sentences that start alike: the highest score
C23_Witness ==
  /\ pc = "scored"
  /\ StockPhraseScenario
  /\ UniqueStarts(fn_arg) = 1
  /\ fn_ret.score = 28
  /\ fn_ret.issues = <<"start", "uniformity">>
  /\ fn_ret.passed

\* the pool tags that are not in a list, in pool order
PoolTagsNotIn(hashtags) ==
  SelectSeq(generic_tags, LAMBDA t : t \notin Range(hashtags))

\* C24: the padded hashtag list has at most 30 entries; it starts with the
\* tags of the response in their order (the first 30 of them when there are
\* more), and what follows are the pool tags that are not among the
\* response's tags, in pool order and each once, as many as fit.
C24_PaddingKeepsPrefixNoDuplicate ==
  pc = "padded" =>
    LET kept     == Min(Len(fn_arg), HashtagTarget)
        appended == SubSeq(fn_ret, kept + 1, Len(fn_ret))
    IN  /\ Len(fn_ret) <= 30
        /\ SubSeq(fn_ret, 1, kept) = SubSeq(fn_arg, 1, kept)
        /\ appended = Prefix(PoolTagsNotIn(fn_arg), HashtagTarget - kept)
        /\ \A i \in 1..Len(appended) :
             /\ appended[i] \notin Range(fn_arg)
             /\ \A j \in 1..Len(appended) :
                  appended[i] = appended[j] => i = j

\* a response list with a repeat and a pool tag in it: the pool tag is
\* skipped, 17 pool tags are appended
C24_Witness ==
  /\ pc = "padded"
  /\ fn_arg = <<101, 3, 102, 101>>
  /\ Len(fn_ret) = 21
  /\ fn_ret[5] = 1
  /\ fn_ret[6] = 2
  /\ fn_ret[7] = 4

\* the iterations whose Score step is in the trace
ScoredIterations ==
  { i \in 1..MAX_ITERATIONS : StageKey("ai_check", i) \in DOMAIN stages_result }

\* the text the Score step of iteration i was applied to
ScoredText(i) == stages_result[StageKey("editor", i)].improved_content

StageCalls == SelectSeq(calls, LAMBDA c : c.stage \in Stages)

\* the stage calls of a run that got through n iterations
CallsOfIterations(n) ==
  [i \in 1..(2 + 2 * n) |->
     IF i = 1 THEN "opener"
     ELSE IF i = 2 THEN "researcher"
     ELSE IF i % 2 = 1 THEN "writer" ELSE "editor"]

\* the order of the stage calls so far: Ideation, Research, then Draft and
\* Edit in turn, each call with its iteration number, each after the one
\* before it has returned
CallsInOrder ==
  LET sc == StageCalls
  IN  /\ Len(sc) <= 2 + 2 * MAX_ITERATIONS
      /\ \A i \in 1..Len(sc) :
           /\ sc[i].stage = CallsOfIterations(MAX_ITERATIONS)[i]
           /\ sc[i].iteration = (IF i <= 2 THEN 0 ELSE (i - 1) \div 2)
           /\ i < Len(sc) => sc[i].ok

\* the Score steps so far are those of the iterations 1..n whose Edit call
\* has returned, each applied to that iteration's Edit output
ScoresInOrder ==
  /\ \E n \in 0..MAX_ITERATIONS : ScoredIterations = 1..n
  /\ \A i \in ScoredIterations :
       /\ \E c \in Returned("editor") : calls[c].iteration = i
       /\ stages_result[StageKey("ai_check", i)]
            = check_ai_detection(ScoredText(i))
  /\ pc \in {"writer", "sanitize", "edit", "score"} =>
       /\ iteration \in 1..MAX_ITERATIONS
       /\ ScoredIterations = 1..(iteration - 1)

\* a run that ends with a result made Ideation, Research and n iterations
DoneInOrder ==
  output.kind = "result" =>
    \E n \in 1..MAX_ITERATIONS :
      /\ Len(StageCalls) = 2 + 2 * n
      /\ ScoredIterations = 1..n

\* the steps a pipeline run can take from one position to the next
StageStep ==
  PipelineRun =>
    \/ pc' = pc
    \/ pc' = "exit"
    \/ pc = "opener" /\ pc' = "researcher"
    \/ pc = "researcher" /\ pc' = "writer" /\ iteration' = 1
    \/ pc = "writer" /\ pc' = "sanitize" /\ iteration' = iteration
    \/ pc = "sanitize" /\ pc' = "edit" /\ iteration' = iteration
    \/ pc = "edit" /\ pc' = "score" /\ iteration' = iteration
    \/ pc = "score" /\ pc' = "writer" /\ iteration' = iteration + 1
    \/ pc = "score" /\ pc' = "assemble" /\ iteration' = iteration

\* C26: the stages of a pipeline run occur in the order Ideation, Research,
\* then one to three rounds of Draft, Edit, Score, then Done: Ideation and
\* Research are called once, a stage is called only after the one before it
\* returned, and the Score step of an iteration follows its Edit stage and
\* is applied to that Edit output.
C26_StageOrder ==
  [](CallsInOrder /\ ScoresInOrder /\ DoneInOrder) /\ [][StageStep]_vars

\* a run that is done after three rounds
C26_Witness ==
  /\ output.kind = "result"
  /\ [i \in 1..Len(StageCalls) |-> StageCalls[i].stage]
       = CallsOfIterations(MAX_ITERATIONS)
  /\ ScoredIterations = 1..MAX_ITERATIONS

\* the iterations whose Score step reported passed
PassedIterations ==
  { i \in ScoredIterations : stages_result[StageKey("ai_check", i)].passed }

\* C27: once the Score step of iteration k has reported passed, the loop is
\* left: no Draft, Edit or Score step of a later iteration is made, the
\* iterations used are recorded as k, and a result returns iteration k's
\* Edit output as its content.
C27_PassEndsLoop ==
  \A k \in PassedIterations :
    /\ pc \in {"assemble", "exit"}
    /\ iteration = k
    /\ \A i \in 1..Len(calls) : calls[i].iteration <= k
    /\ \A i \in (k + 1)..MAX_ITERATIONS :
         IterationKeys(i) \cap DOMAIN stages_result = {}
    /\ "final_iteration" \in DOMAIN stages_result
    /\ stages_result["final_iteration"] = k
    /\ output.kind = "result" =>
         /\ output.iterationsUsed = k
         /\ output.content = ScoredText(k)

\* a run whose first round failed the check and whose second passed it
C27_Witness ==
  /\ output.kind = "result"
  /\ PassedIterations = {2}
  /\ ScoredIterations = {1, 2}
  /\ output.content = ScoredText(2)
  /\ ScoredText(1) # ScoredText(2)

\* the feedback made of exactly the issues and the score of iteration i's
\* check report
FeedbackOf(i) ==
  [issues |-> stages_result[StageKey("ai_check", i)].issues,
   score |-> stages_result[StageKey("ai_check", i)].score]

\* the feedback the Draft step of iteration k is due: none in iteration 1,
\* that of iteration k - 1's report afterwards
FeedbackDue(k, given) ==
  IF k = 1 THEN given = NoFeedback
  ELSE /\ k - 1 \in ScoredIterations
       /\ given = FeedbackOf(k - 1)

\* C28: the Draft step of iteration 1 receives no revision feedback; the
\* Draft step of an iteration k >= 2 receives the feedback built from exactly
\* the issues and the score of iteration k - 1's check report, never that of
\* an older report and never an accumulation.
C28_FeedbackFromPreviousReport ==
  /\ \A i \in 1..Len(calls) :
       calls[i].stage = "writer" =>
         FeedbackDue(calls[i].iteration, calls[i].feedback)
  /\ pc \in LoopPositions => FeedbackDue(iteration, revision_feedback)

\* a third Draft call whose feedback is the second report's, which differs
\* from the first report's
C28_Witness ==
  /\ \E i \in 1..Len(calls) :
       /\ calls[i].stage = "writer"
       /\ calls[i].iteration = 3
       /\ calls[i].feedback = FeedbackOf(2)
       /\ FeedbackOf(1).issues # <<>>
       /\ FeedbackOf(1) # FeedbackOf(2)
  /\ \E i \in 1..Len(calls) :
       /\ calls[i].stage = "writer"
       /\ calls[i].iteration = 1
       /\ calls[i].feedback = NoFeedback

\* the stages whose failed generation call ends the run
FatalStages == {"opener", "researcher", "writer", "editor"}

\* the stages of the revision loop that issue generation calls
LoopStages == {"writer", "cleanup", "editor"}

\* a failed call of a fatal stage is the last call of the run, and the run is over
FailedCallIsLast ==
  \A i \in 1..Len(calls) :
    (calls[i].stage \in FatalStages /\ ~calls[i].ok) =>
      /\ i = Len(calls)
      /\ pc = "exit"
      /\ output.kind = "error"

\* no stage is called twice for the same iteration
NoCallTwice ==
  \A i, j \in 1..Len(calls) :
    (calls[i].stage = calls[j].stage /\ calls[i].iteration = calls[j].iteration)
      => i = j

\* a call of a later iteration follows a check of the iteration before that
\* did not pass
RerunOnlyAfterFailedScore ==
  \A i \in 1..Len(calls) :
    (calls[i].stage \in LoopStages /\ calls[i].iteration >= 2) =>
      /\ calls[i].iteration - 1 \in ScoredIterations
      /\ ~stages_result[StageKey("ai_check", calls[i].iteration - 1)].passed

\* the call log only grows, by one call per step, and not after a run ended
CallStep ==
  /\ calls' # calls =>
       /\ Len(calls') = Len(calls) + 1
       /\ SubSeq(calls', 1, Len(calls)) = calls
       /\ pc # "exit"
  /\ pc = "exit" => calls' = calls

\* C29: a generation call that fails is never issued again: Draft and Edit
\* run again only after a Score step that reported passed = false, and after
\* a failed Ideation, Research, Draft or Edit call the run makes no further
\* generation call.
C29_FailedCallNeverReissued ==
  /\ [](FailedCallIsLast /\ NoCallTwice /\ RerunOnlyAfterFailedScore)
  /\ [][CallStep]_vars

\* a run that ended on a failed Edit call of its second iteration
C29_Witness ==
  /\ pc = "exit"
  /\ Len(calls) >= 5
  /\ LastCall.stage = "editor"
  /\ LastCall.iteration = 2
  /\ LastCall.sent
  /\ ~LastCall.ok
  /\ \E i \in 1..Len(calls) :
       calls[i].stage = "cleanup" /\ ~calls[i].ok /\ i < Len(calls)

\* Ideation, Research, and per iteration a Draft, a sanitizer and an Edit call
CallBudget == 2 + 3 * MAX_ITERATIONS

\* the calls a stage made for an iteration
CallsOf(stage, it) ==
  { i \in 1..Len(calls) : calls[i].stage = stage /\ calls[i].iteration = it }

\* the run is over: a result or an error object was printed
RunOver ==
  /\ pc = "exit"
  /\ output.kind \in {"result", "error"}
  /\ PipelineSucceeded \/ FatalError

WithinBudget ==
  /\ iteration <= MAX_ITERATIONS
  /\ Len(calls) <= CallBudget
  /\ \A s \in {"opener", "researcher"} : Cardinality(CallsOf(s, 0)) <= 1
  /\ \A i \in 1..Len(calls) :
       calls[i].stage \in LoopStages => calls[i].iteration \in 1..MAX_ITERATIONS
  /\ \A k \in 1..MAX_ITERATIONS : \A s \in LoopStages :
       Cardinality(CallsOf(s, k)) <= 1

\* C30: when every generation call returns or fails, every pipeline run
\* reaches its result or a fatal failure, within 3 iterations and within 11
\* generation calls: Ideation, Research, and per iteration one Draft call,
\* at most one sanitizer call and one Edit call.
C30_RunEndsWithinBudget ==
  /\ PipelineRun ~> RunOver
  /\ [](PipelineRun => WithinBudget)

\* a run that returned its result after all eleven calls
C30_Witness ==
  /\ PipelineRun
  /\ RunOver
  /\ output.kind = "result"
  /\ iteration = MAX_ITERATIONS
  /\ Len(calls) = CallBudget

\* the report the Score step of the last executed iteration stored
LastReport == stages_result[StageKey("ai_check", iteration)]

\* C31: in every returned result aiDetectionScore and aiDetectionIssues,
\* recomputed on the final content after the loop, are the score and the
\* issues of the last executed iteration's report; so qualityWarning true
\* comes with a score of 50 or more and qualityWarning false with one below.
C31_FinalCheckIsLastReport ==
  (pc = "exit" /\ output.kind = "result") =>
    /\ iteration \in ScoredIterations
    /\ \A i \in ScoredIterations : i <= iteration
    /\ output.aiDetectionScore = LastReport.score
    /\ output.aiDetectionIssues = LastReport.issues
    /\ output.qualityWarning => output.aiDetectionScore >= AI_DETECTION_THRESHOLD
    /\ ~output.qualityWarning => output.aiDetectionScore < AI_DETECTION_THRESHOLD

\* a result after three failed rounds, whose last report differs from the
\* one before it
C31_Witness ==
  /\ pc = "exit"
  /\ output.kind = "result"
  /\ output.qualityWarning
  /\ iteration = MAX_ITERATIONS
  /\ output.aiDetectionScore = LastReport.score
  /\ output.aiDetectionIssues # <<>>
  /\ stages_result[StageKey("ai_check", 2)] # LastReport

\* C32: whenever check_ai_detection returns passed = false its issues list
\* is not empty: with every sub-metric within its own flag threshold the six
\* sub-scores average below 50.  So the revision feedback built from a
\* failed report carries at least one issue besides the score line.
C32_FailedReportNamesIssue ==
  pc = "scored" =>
    /\ ~fn_ret.passed => fn_ret.issues # <<>>
    /\ ~fn_ret.passed => Feedback(NoFeedback, fn_ret).issues # <<>>
    /\ fn_ret.issues = <<>> => fn_ret.score < AI_DETECTION_THRESHOLD

\* a report that fails with the lowest failing score, and names two issues
C32_Witness ==
  /\ pc = "scored"
  /\ ~fn_ret.passed
  /\ fn_ret.score = AI_DETECTION_THRESHOLD
  /\ Len(fn_ret.issues) = 2
  /\ Feedback(NoFeedback, fn_ret).issues = fn_ret.issues

\* the Edit output of iteration k is empty or shorter than 100 characters
ShortEditOutput(k) == Text[ScoredText(k)].len < MinContentLen

\* the Score step of iteration k passed with score 0 and the loop was left
\* there, with no quality warning
ShortOutputPasses(k) ==
  /\ stages_result[StageKey("ai_check", k)] = ZeroReport
  /\ iteration = k
  /\ pc \in {"assemble", "exit"}
  /\ ~quality_warning
  /\ "final_iteration" \in DOMAIN stages_result
  /\ stages_result["final_iteration"] = k

\* C33: if the Edit output of an iteration is empty or shorter than 100
\* characters, the Score step of that iteration passes with score 0, the run
\* ends at that iteration with qualityWarning false and returns that short
\* or empty content, whatever the Draft was.
C33_ShortEditOutputIsReturned ==
  \A k \in ScoredIterations :
    ShortEditOutput(k) =>
      /\ ShortOutputPasses(k)
      /\ pc = "exit" =>
           /\ output.kind = "result"
           /\ ~output.qualityWarning
           /\ output.content = ScoredText(k)
           /\ output.aiDetectionScore = 0

\* what holds of the code: the Score step passes and the loop is left; the
\* short content is what a result returns, when the run returns one
ShortEditOutputEndsLoop ==
  \A k \in ScoredIterations :
    ShortEditOutput(k) =>
      /\ ShortOutputPasses(k)
      /\ (pc = "exit" /\ output.kind = "result") =>
           /\ ~output.qualityWarning
           /\ output.content = ScoredText(k)
           /\ output.aiDetectionScore = 0

(***************************************************************************)
(* langgraph_workflow.py: the graph create_blog_generator_graph builds and *)
(* generate_blog_post runs.  fn_arg holds the arguments and whether the    *)
(* langchain_anthropic package can be imported; fn_ret holds the graph     *)
(* state (a BlogGeneratorState), the nodes run so far and the values the   *)
(* progress field has taken; pc is the node whose turn it is.              *)
(***************************************************************************)
GraphNodes ==
  <<"research", "style_analysis", "outline", "content_generation",
    "review_and_polish">>

\* variant: research is wired to outline, style_analysis is left out
Edge_SkipStyle(node) ==
  CASE node = "research" -> "outline"
    [] node = "style_analysis" -> "outline"
    [] node = "outline" -> "content_generation"
    [] node = "content_generation" -> "review_and_polish"
    [] node = "review_and_polish" -> "END"

\* workflow.add_edge(a, b), one edge out of every node
Edge(node) ==
  CASE node = "research" -> "style_analysis"
    [] node = "style_analysis" -> "outline"
    [] node = "outline" -> "content_generation"
    [] node = "content_generation" -> "review_and_polish"
    [] node = "review_and_polish" -> "END"

\* workflow.set_entry_point("research")
EntryPoint == "research"

\* what llm.invoke(...).content can be
LlmResponses == {"", "text_a", "text_b"}

GraphArgs ==
  [ title : {"none", "given"}, locale : {"ko", "en"},
    style_profile_id : {"none", "profile"},
    ai_provider : {"OPENAI", "ANTHROPIC", "OTHER"},
    anthropic_installed : BOOLEAN ]

\* initial_state of generate_blog_post
InitialState(args) ==
  [ title |-> args.title, style_profile_id |-> args.style_profile_id,
    research_notes |-> "", style_examples |-> <<>>, outline |-> "",
    draft_content |-> "", final_title |-> "", final_content |-> "",
    final_excerpt |-> "", current_step |-> "starting", progress |-> 0,
    errors |-> <<>> ]

InitGraph ==
  /\ PipelineIdle
  /\ pc = EntryPoint
  /\ fn_arg \in GraphArgs
  /\ fn_ret = [state |-> InitialState(fn_arg), ran |-> <<>>,
               progress_log |-> <<0>>]

\* get_llm: `from langchain_anthropic import ChatAnthropic` raises when the
\* package is missing
GetLlmRaises ==
  fn_arg.ai_provider = "ANTHROPIC" /\ ~fn_arg.anthropic_installed

\* a node raised: graph.invoke raises and the state it held is dropped
NodeRaises(node) ==
  /\ pc = node
  /\ pc' = "failed"
  /\ fn_ret' = [fn_ret EXCEPT !.ran = Append(@, node)]

\* a node returned `update`: its keys replace those of the state, and the
\* node its edge leads to is next
NodeReturns(node, update) ==
  /\ pc = node
  /\ pc' = Edge(node)
  /\ fn_ret' =
       [state |-> [k \in DOMAIN fn_ret.state |->
                     IF k \in DOMAIN update THEN update[k]
                     ELSE fn_ret.state[k]],
        ran |-> Append(fn_ret.ran, node),
        progress_log |-> Append(fn_ret.progress_log, update.progress)]

research_node ==
  /\ UNCHANGED <<fn_arg, pipeline_vars>>
  /\ \/ NodeRaises("research")
     \/ /\ ~GetLlmRaises
        /\ \E r \in LlmResponses :
             NodeReturns("research",
                         [research_notes |-> r, current_step |-> "research",
                          progress |-> 20])

\* both branches return the same update: no style example is retrieved
style_analysis_node ==
  /\ UNCHANGED <<fn_arg, pipeline_vars>>
  /\ NodeReturns("style_analysis",
                 [style_examples |-> <<>>, current_step |-> "style_analysis",
                  progress |-> 30])

outline_node ==
  /\ UNCHANGED <<fn_arg, pipeline_vars>>
  /\ \/ NodeRaises("outline")
     \/ /\ ~GetLlmRaises
        /\ \E r \in LlmResponses :
             NodeReturns("outline",
                         [outline |-> r, current_step |-> "outline",
                          progress |-> 50])

content_generation_node ==
  /\ UNCHANGED <<fn_arg, pipeline_vars>>
  /\ \/ NodeRaises("content_generation")
     \/ /\ ~GetLlmRaises
        /\ \E r \in LlmResponses :
             NodeReturns("content_generation",
                         [draft_content |-> r,
                          current_step |-> "content_generation",
                          progress |-> 80])

\* three llm.invoke calls: the title, the excerpt, the polished text
review_and_polish_node ==
  /\ UNCHANGED <<fn_arg, pipeline_vars>>
  /\ \/ NodeRaises("review_and_polish")
     \/ /\ ~GetLlmRaises
        /\ \E extracted_title, excerpt, polished \in LlmResponses :
             NodeReturns("review_and_polish",
                         [final_title |-> IF fn_ret.state.title = "given"
                                            THEN "given" ELSE extracted_title,
                          final_content |-> polished,
                          final_excerpt |-> excerpt,
                          current_step |-> "complete",
                          progress |-> 100])

NextGraph ==
  \/ research_node
  \/ style_analysis_node
  \/ outline_node
  \/ content_generation_node
  \/ review_and_polish_node

SpecGraph == InitGraph /\ [][NextGraph]_vars

\* the values of `progress`, from the initial state through the five nodes
ProgressSteps == <<0, 20, 30, 50, 80, 100>>

GraphRunning == pc \in Range(GraphNodes) \cup {"END", "failed"}

\* the nodes run so far are the first nodes of the fixed order, each once,
\* and all five once the graph has reached END
RanInOrder ==
  /\ Len(fn_ret.ran) <= Len(GraphNodes)
  /\ fn_ret.ran = Prefix(GraphNodes, Len(fn_ret.ran))
  /\ pc = "END" => fn_ret.ran = GraphNodes
  /\ pc \in Range(GraphNodes) => pc = GraphNodes[Len(fn_ret.ran) + 1]

\* progress has gone through the first values of 0, 20, 30, 50, 80, 100, one
\* for each node that returned
ProgressInOrder ==
  /\ Len(fn_ret.progress_log) <= Len(ProgressSteps)
  /\ fn_ret.progress_log = Prefix(ProgressSteps, Len(fn_ret.progress_log))
  /\ fn_ret.state.progress = fn_ret.progress_log[Len(fn_ret.progress_log)]
  /\ pc # "failed" => Len(fn_ret.progress_log) = Len(fn_ret.ran) + 1
  /\ pc = "failed" => Len(fn_ret.progress_log) = Len(fn_ret.ran)

CompleteAtHundred ==
  fn_ret.state.progress = 100 <=> fn_ret.state.current_step = "complete"

\* a step of the graph runs one node, and progress grows when it returns
GraphStep ==
  GraphRunning =>
    /\ Len(fn_ret'.ran) = Len(fn_ret.ran) + 1
    /\ fn_ret'.ran[Len(fn_ret'.ran)] = pc
    /\ \/ pc' = "failed" /\ fn_ret'.state = fn_ret.state
       \/ pc' # "failed" /\ fn_ret'.state.progress > fn_ret.state.progress

\* C34: a run of the LangGraph workflow executes research, style_analysis,
\* outline, content_generation, review_and_polish in that order, each once,
\* with no branch and no loop (a run in which a node raises stops there);
\* progress strictly increases through 0, 20, 30, 50, 80, 100, and it is
\* 100 exactly when current_step is "complete".
C34_GraphIsLinear ==
  /\ [](GraphRunning => (RanInOrder /\ ProgressInOrder /\ CompleteAtHundred))
  /\ [][GraphStep]_vars

\* a run that reached END without a title of its own
C34_Witness ==
  /\ pc = "END"
  /\ fn_ret.ran = GraphNodes
  /\ fn_ret.progress_log = ProgressSteps
  /\ fn_ret.state.current_step = "complete"
  /\ fn_ret.state.progress = 100
  /\ fn_arg.title = "none"
  /\ fn_ret.state.final_title = "text_a"
  /\ fn_ret.state.research_notes = "text_b"

====
